---- MODULE Spec2Model ----
(***************************************************************************)
(* Retrieval engine of the PDF question-answering program (rag_core.py):   *)
(* the hybrid retriever (_HybridRetriever, _create_retriever), the index   *)
(* store (_build_vectorstore, init_rag, rebuild_rag) and answer_question,  *)
(* with its callers: the command line loop (main.py) and the web page      *)
(* (app_streamlit.py).                                                     *)
(*                                                                         *)
(* Text is modelled in blocks: one element of page_content stands for 100  *)
(* characters, so page_content[:100] is the first element of the sequence. *)
(* A path is the sequence of its components; its name is the last one.     *)
(***************************************************************************)
EXTENDS Integers, Sequences, FiniteSets, TLC

(* ------------------------------ bounds --------------------------------- *)
\* budgets 1..MaxK are explored next to the default budget RETRIEVER_K
MaxK == 4
\* longest result list a search branch returns in the model
MaxLen == 3
\* number of init_rag calls explored on one persist directory
MaxBuilds == 3
\* number of PDFs in the batch given to the extraction pool
MaxPoolFiles == 5
\* longest conversation history handed to answer_question
MaxHistory == 6
\* the questions answered in one session of the command line loop
MaxTurns == 7
\* the uploads made on the web page
MaxUploads == 2
\* the length to which the messages of the web page are followed
MaxMessages == 13

(* ------------------------- program constants --------------------------- *)
RETRIEVER_K == 8
MAX_WORKERS == 4
HISTORY_TURNS == 5

(* ------------------------------ helpers -------------------------------- *)
Min(a, b) == IF a <= b THEN a ELSE b

Max(a, b) == IF a >= b THEN a ELSE b

Range(s) == {s[i] : i \in 1..Len(s)}

\* Python slice s[:n], including the meaning of a negative n
TakeFirst_OffByOne(s, n) == SubSeq(s, 1, Min(Len(s), n + 1))
TakeFirst(s, n) ==
    IF n >= 0 THEN SubSeq(s, 1, Min(n, Len(s)))
              ELSE SubSeq(s, 1, Max(Len(s) + n, 0))

\* Path(p).name
PathName(p) == IF Len(p) = 0 THEN "" ELSE p[Len(p)]

(* ------------------------------ documents ------------------------------ *)
\* langchain Document: page_content and the metadata keys the program reads;
\* "" and <<>> stand for a key that metadata.get() defaults
Doc(text, src, page, fname) ==
    [page_content |-> text, source |-> src, page |-> page, filename |-> fname]

\* the page of a document whose metadata has no "page" key
NoPage == -1

PathA == <<"Base", "a.pdf">>
PathB == <<"Base", "sub", "b.pdf">>
PathN == <<"Base", "notes.txt">>
PathBA == <<"Base", "ba.pdf">>

\* the documents the two search branches can return: D1 and D1x differ only
\* after the first 100 characters, D1 and D2 only in the source
D1  == Doc(<<"A">>, PathA, 0, "a.pdf")
D1x == Doc(<<"A", "x">>, PathA, 1, "a.pdf")
D2  == Doc(<<"A">>, PathB, 0, "b.pdf")
D3  == Doc(<<"B">>, PathA, 2, "a.pdf")
D4  == Doc(<<"B">>, PathB, 1, "b.pdf")

\* every list of at most n documents
ListsUpTo(n) == UNION {[1..m -> {D1, D1x, D2, D3, D4}] : m \in 0..Min(n, MaxLen)}

\* the chunk list absent (None)
NoChunks == <<[none |-> TRUE]>>

NoRetriever == [kind |-> "none", k |-> 0, semK |-> 0, bmK |-> 0]

VARIABLES
    retrieverK,   \* the configured budget (module constant RETRIEVER_K)
    chunksArg,    \* chunks argument of _create_retriever
    bm25Raises,   \* BM25Retriever.from_documents raises in this run
    createState,  \* "none", "returned" or "raised": _create_retriever's outcome
    retriever,    \* the retriever returned by _create_retriever
    hpc,          \* position of the thread running retriever.invoke
    semState,     \* semantic branch: "idle", "running", "done", "raised"
    bmState,      \* keyword branch:  "idle", "running", "done", "raised"
    semRet,       \* list returned by the semantic branch
    bmRet,        \* list returned by the keyword branch
    doneOrder,    \* the branches in the order in which they finished
    seen,         \* _get_relevant_documents: seen
    result,       \* _get_relevant_documents: result
    out           \* value returned by retriever.invoke

hvars == <<retrieverK, chunksArg, bm25Raises, createState, retriever, hpc,
           semState, bmState, semRet, bmRet, doneOrder, seen, result,
           out>>

VARIABLES
    envReindex,    \* os.environ holds REINDEX=true
    dotenvReindex, \* the .env file sets REINDEX=true
    pdfDirExists,  \* the corpus directory (base_dir / "Base") exists
    corpus,        \* the files under the corpus directory
    persistExists, \* the persist directory (base_dir / "vectorstore") exists
    chunksFile,    \* persist_dir / "chunks.pkl": NoFile or the pickled list
    index,         \* the persisted vector index: its files exist, its vectors
    buildNo,       \* number of init_rag calls so far
    bpc,           \* position of the thread running init_rag
    viaRebuild,    \* init_rag was called by rebuild_rag
    force_reindex, \* _build_vectorstore: force_reindex
    pdf_files,     \* _build_vectorstore: pdf_files
    documents,     \* _build_vectorstore: documents
    chunks,        \* _build_vectorstore: chunks
    outcome,       \* how the last call ended, and what it returned
    dirAtCall,     \* the persist directory as the running call found it
    effects,       \* what the running call did: "extract", "split", "embed", "wipe"
    embedFailed    \* a call on this persist directory failed while embedding

bvars == <<envReindex, dotenvReindex, pdfDirExists, corpus, persistExists,
           chunksFile, index,
           buildNo, bpc, viaRebuild, force_reindex, pdf_files, documents,
           chunks, outcome, dirAtCall, effects, embedFailed>>

VARIABLES
    tasks,         \* the futures of ex.map(_load_pdf, pdf_files), in order
    collected,     \* indexes of the futures whose result the for loop has taken
    overtaken      \* a future finished before one submitted earlier

pvars == <<tasks, collected, overtaken>>

VARIABLES
    question,      \* answer_question: question, as its characters
    filter_source, \* answer_question: filter_source (None or a string)
    history,       \* answer_question: history, the turns numbered from 1
    ranking,       \* the indexed chunks in the order of similarity to question
    docs,          \* answer_question: docs
    calls,         \* the calls made to retriever, vector store and model
    reply,         \* what the call gave its caller: returned pair or raised
    apc            \* position of the thread running answer_question

avars == <<question, filter_source, history, ranking, docs, calls, reply, apc>>

VARIABLES
    cpc,           \* main.py: "off" (not started), "prompt", "call", "ended"
    cliLine,       \* main.py: question, the line read and stripped
    cliHistory,    \* main.py: history, the turns numbered as they were made
    cliFilter,     \* main.py: filter_source
    pdf_names,     \* main.py: pdf_names, the listing taken at startup
    turns          \* number of questions answered in this session

clivars == <<cpc, cliLine, cliHistory, cliFilter, pdf_names, turns>>

VARIABLES
    messages,       \* st.session_state.messages, as the roles of the messages
    storeMessages,  \* _memory_store()[sid]["messages"]
    rag_version,    \* st.session_state["rag_version"]
    reindex_needed, \* st.session_state["reindex_needed"] is set
    cache,          \* the entries of st.cache_resource for _load_rag_cached
    rag,            \* main: rag, as the last script run had it
    loaded          \* how the last script run got rag: "hit", "ran", "forced"

webvars == <<messages, storeMessages, rag_version, reindex_needed, cache, rag,
             loaded>>

\* what an action of the hybrid retriever leaves alone
nonHybrid == <<bvars, pvars, avars, clivars, webvars>>

\* what an action of the index store leaves alone
nonBuild == <<hvars, pvars, avars, clivars, webvars>>

\* what an action of the extraction pool leaves alone
nonPool == <<hvars, avars, clivars, webvars>>

\* what an action of answer_question leaves alone
nonAnswer == <<hvars, bvars, pvars, clivars, webvars>>

vars == <<hvars, bvars, pvars, avars, clivars, webvars>>

(* --------------------------- hybrid retriever -------------------------- *)
\* key = (doc.page_content[:100], doc.metadata.get("source", ""))
Key_FullText(doc) == <<doc.page_content, doc.source>>
Key(doc) == <<TakeFirst(doc.page_content, 1), doc.source>>

\* _add: st is the pair of locals [seen, result]
Add_Prepend(st, doc) ==
    IF Key(doc) \notin st.seen
    THEN [seen |-> st.seen \cup {Key(doc)}, result |-> <<doc>> \o st.result]
    ELSE st
Add(st, doc) ==
    IF Key(doc) \notin st.seen
    THEN [seen |-> st.seen \cup {Key(doc)}, result |-> Append(st.result, doc)]
    ELSE st

\* for doc in docs: _add(doc)
RECURSIVE AddAll(_, _)
AddAll(st, ds) ==
    IF ds = <<>> THEN st ELSE AddAll(Add(st, Head(ds)), Tail(ds))

\* f_sem.result()[: self.k // 2]
SemSlice(sem, k) == TakeFirst(sem, k \div 2)

\* f_bm25.result()[: self.k - len(result)]
BmSlice(bm, k, res) == TakeFirst(bm, k - Len(res))

\* k given to BM25Retriever.from_documents
Bm25K_Full(kk) == kk
Bm25K(kk) == kk \div 2

\* _create_retriever(vectorstore, chunks, use_hybrid=True): the retriever it
\* returns; "if chunks" is false for None and for the empty list
CreateRetriever_NoTry(kk, chs, raises) ==
    IF chs # NoChunks /\ chs # <<>>
    THEN IF raises
         THEN [kind |-> "raised", k |-> 0, semK |-> kk, bmK |-> 0]
         ELSE [kind |-> "hybrid", k |-> kk, semK |-> kk, bmK |-> Bm25K(kk)]
    ELSE [kind |-> "semantic", k |-> 0, semK |-> kk, bmK |-> 0]
CreateRetriever(kk, chs, raises) ==
    IF chs # NoChunks /\ chs # <<>> /\ ~raises
    THEN [kind |-> "hybrid", k |-> kk, semK |-> kk, bmK |-> Bm25K(kk)]
    ELSE [kind |-> "semantic", k |-> 0, semK |-> kk, bmK |-> 0]

HInit ==
    /\ retrieverK \in ((1..MaxK) \cup {RETRIEVER_K})
    /\ chunksArg = NoChunks
    /\ bm25Raises = FALSE
    /\ createState = "none"
    /\ retriever = NoRetriever
    /\ hpc = "new"
    /\ semState = "idle"
    /\ bmState = "idle"
    /\ semRet = <<>>
    /\ bmRet = <<>>
    /\ doneOrder = <<>>
    /\ seen = {}
    /\ result = <<>>
    /\ out = <<>>

\* retriever = _create_retriever(vectorstore, chunks)
Create ==
    /\ hpc = "new"
    /\ \E ch \in {NoChunks, <<>>, <<D1, D3>>}, r \in BOOLEAN :
         /\ chunksArg' = ch
         /\ bm25Raises' = r
         /\ retriever' = CreateRetriever(retrieverK, ch, r)
    /\ createState' = IF retriever'.kind = "raised" THEN "raised" ELSE "returned"
    /\ hpc' = IF retriever'.kind = "raised" THEN "failed" ELSE "ready"
    /\ UNCHANGED <<doneOrder, retrieverK, semState, bmState, semRet, bmRet, seen, result, out>>
    /\ UNCHANGED nonHybrid

\* retriever.invoke(query) on the hybrid retriever: the locals are set and
\* both searches are submitted to the two-worker pool
Submit ==
    /\ hpc = "ready"
    /\ retriever.kind = "hybrid"
    /\ seen' = {}
    /\ result' = <<>>
    /\ semState' = "running"
    /\ bmState' = "running"
    /\ hpc' = "waitSem"
    /\ UNCHANGED <<doneOrder, retrieverK, chunksArg, bm25Raises, createState, retriever,
                   semRet, bmRet, out>>
    /\ UNCHANGED nonHybrid

\* retriever.invoke(query) on the semantic retriever alone
InvokeSemantic ==
    /\ hpc = "ready"
    /\ retriever.kind = "semantic"
    /\ semState' = "running"
    /\ hpc' = "semOnly"
    /\ UNCHANGED <<doneOrder, retrieverK, chunksArg, bm25Raises, createState, retriever,
                   bmState, semRet, bmRet, seen, result, out>>
    /\ UNCHANGED nonHybrid

\* the semantic search (k = RETRIEVER_K) returns at most k documents
SemFinish ==
    /\ semState = "running"
    /\ \E l \in ListsUpTo(retriever.semK) : semRet' = l
    /\ semState' = "done"
    /\ doneOrder' = Append(doneOrder, "sem")
    /\ UNCHANGED <<retrieverK, chunksArg, bm25Raises, createState, retriever,
                   hpc, bmState, bmRet, seen, result, out>>
    /\ UNCHANGED nonHybrid

\* the semantic search raises (provider failure)
SemRaise ==
    /\ semState = "running"
    /\ semState' = "raised"
    /\ doneOrder' = Append(doneOrder, "sem")
    /\ UNCHANGED <<retrieverK, chunksArg, bm25Raises, createState, retriever,
                   hpc, bmState, semRet, bmRet, seen, result, out>>
    /\ UNCHANGED nonHybrid

\* the keyword search (k = RETRIEVER_K // 2) returns at most k documents
BmFinish ==
    /\ bmState = "running"
    /\ \E l \in ListsUpTo(retriever.bmK) : bmRet' = l
    /\ bmState' = "done"
    /\ doneOrder' = Append(doneOrder, "bm")
    /\ UNCHANGED <<retrieverK, chunksArg, bm25Raises, createState, retriever,
                   hpc, semState, semRet, seen, result, out>>
    /\ UNCHANGED nonHybrid

\* the keyword search raises
BmRaise ==
    /\ bmState = "running"
    /\ bmState' = "raised"
    /\ doneOrder' = Append(doneOrder, "bm")
    /\ UNCHANGED <<retrieverK, chunksArg, bm25Raises, createState, retriever,
                   hpc, semState, semRet, bmRet, seen, result, out>>
    /\ UNCHANGED nonHybrid

\* f_sem.result() returns: the first loop runs
TakeSem ==
    /\ hpc = "waitSem"
    /\ semState = "done"
    /\ LET st == AddAll([seen |-> seen, result |-> result],
                        SemSlice(semRet, retriever.k))
       IN /\ seen' = st.seen
          /\ result' = st.result
    /\ hpc' = "waitBm"
    /\ UNCHANGED <<doneOrder, retrieverK, chunksArg, bm25Raises, createState, retriever,
                   semState, bmState, semRet, bmRet, out>>
    /\ UNCHANGED nonHybrid

\* f_sem.result() re-raises the branch's exception: the with block is left
SemFailed ==
    /\ hpc = "waitSem"
    /\ semState = "raised"
    /\ hpc' = "exitRaise"
    /\ UNCHANGED <<doneOrder, retrieverK, chunksArg, bm25Raises, createState, retriever,
                   semState, bmState, semRet, bmRet, seen, result, out>>
    /\ UNCHANGED nonHybrid

\* f_bm25.result() returns: the second loop runs
TakeBm ==
    /\ hpc = "waitBm"
    /\ bmState = "done"
    /\ LET st == AddAll([seen |-> seen, result |-> result],
                        BmSlice(bmRet, retriever.k, result))
       IN /\ seen' = st.seen
          /\ result' = st.result
    /\ hpc' = "exitReturn"
    /\ UNCHANGED <<doneOrder, retrieverK, chunksArg, bm25Raises, createState, retriever,
                   semState, bmState, semRet, bmRet, out>>
    /\ UNCHANGED nonHybrid

\* f_bm25.result() re-raises the branch's exception
BmFailed ==
    /\ hpc = "waitBm"
    /\ bmState = "raised"
    /\ hpc' = "exitRaise"
    /\ UNCHANGED <<doneOrder, retrieverK, chunksArg, bm25Raises, createState, retriever,
                   semState, bmState, semRet, bmRet, seen, result, out>>
    /\ UNCHANGED nonHybrid

BranchFinished(s) == s \in {"done", "raised"}

\* ThreadPoolExecutor.__exit__ is shutdown(wait=True): it returns once both
\* submitted calls have finished; then "return result[: self.k]"
ExitReturn ==
    /\ hpc = "exitReturn"
    /\ BranchFinished(semState) /\ BranchFinished(bmState)
    /\ out' = TakeFirst(result, retriever.k)
    /\ hpc' = "returned"
    /\ UNCHANGED <<doneOrder, retrieverK, chunksArg, bm25Raises, createState, retriever,
                   semState, bmState, semRet, bmRet, seen, result>>
    /\ UNCHANGED nonHybrid

\* the same, with the exception propagating to the caller
ExitRaise_NoJoin ==
    /\ hpc = "exitRaise"
    /\ hpc' = "raised"
    /\ UNCHANGED <<doneOrder, retrieverK, chunksArg, bm25Raises, createState, retriever,
                   semState, bmState, semRet, bmRet, seen, result, out>>
    /\ UNCHANGED nonHybrid
ExitRaise ==
    /\ hpc = "exitRaise"
    /\ BranchFinished(semState) /\ BranchFinished(bmState)
    /\ hpc' = "raised"
    /\ UNCHANGED <<doneOrder, retrieverK, chunksArg, bm25Raises, createState, retriever,
                   semState, bmState, semRet, bmRet, seen, result, out>>
    /\ UNCHANGED nonHybrid

\* the semantic retriever alone returns what the semantic search returned
SemOnlyReturn ==
    /\ hpc = "semOnly"
    /\ semState = "done"
    /\ out' = semRet
    /\ hpc' = "returned"
    /\ UNCHANGED <<doneOrder, retrieverK, chunksArg, bm25Raises, createState, retriever,
                   semState, bmState, semRet, bmRet, seen, result>>
    /\ UNCHANGED nonHybrid

\* ... or raises what it raised
SemOnlyRaise ==
    /\ hpc = "semOnly"
    /\ semState = "raised"
    /\ hpc' = "raised"
    /\ UNCHANGED <<doneOrder, retrieverK, chunksArg, bm25Raises, createState, retriever,
                   semState, bmState, semRet, bmRet, seen, result, out>>
    /\ UNCHANGED nonHybrid

HNext ==
    \/ Create
    \/ Submit
    \/ InvokeSemantic
    \/ SemFinish
    \/ SemRaise
    \/ BmFinish
    \/ BmRaise
    \/ TakeSem
    \/ SemFailed
    \/ TakeBm
    \/ BmFailed
    \/ ExitReturn
    \/ ExitRaise
    \/ SemOnlyReturn
    \/ SemOnlyRaise

(* ------------------------------ index store ---------------------------- *)
NoFile == <<[nofile |-> TRUE]>>

\* no index files in the persist directory
NoIndex == [exists |-> FALSE, vectors |-> {}]

Files == Range(<<PathA, PathN, PathB>>)

\* a batch of PDFs in a subdirectory, named in sorted order
PoolNames == <<"p1.pdf", "p2.pdf", "p3.pdf", "p4.pdf", "p5.pdf", "p6.pdf",
               "p7.pdf">>

PoolPath(i) == <<"Base", "lote", PoolNames[i]>>

PdfNames == {"a.pdf", "b.pdf", "ba.pdf"} \cup Range(PoolNames)

\* all paths of the model in the order of sorted(): Path compares by parts
SortedPaths ==
    <<PathA, PathBA>> \o [i \in 1..Len(PoolNames) |-> PoolPath(i)]
        \o <<PathN, PathB>>

\* sorted(pdf_dir_resolved.glob("**/*.pdf"))
Glob(dir) == SelectSeq(SortedPaths, LAMBDA f : f \in dir /\ PathName(f) \in PdfNames)

\* the text of the pages of each file (the second page of a.pdf is empty; the
\* even files of the batch have two pages)
PagesOf(f) ==
    CASE f = PathA -> << <<"A", "x">>, <<>> >>
      [] f = PathB -> << <<"B">> >>
      [] f \in {PoolPath(i) : i \in 1..MaxPoolFiles} ->
            IF (CHOOSE i \in 1..Len(PoolNames) : PoolPath(i) = f) % 2 = 0
            THEN << <<"P">>, <<"Q">> >> ELSE << <<"P">> >>
      [] OTHER -> <<>>

\* _load_pdf(path): one Document per page with source and page metadata, or
\* [] when both loaders raise
LoadPdf(f, fails) ==
    IF fails THEN <<>>
    ELSE [i \in 1..Len(PagesOf(f)) |-> Doc(PagesOf(f)[i], f, i - 1, "")]

\* documents.extend(doc_list) over ex.map(_load_pdf, pdf_files)
RECURSIVE LoadAll(_, _)
LoadAll(files, failing) ==
    IF files = <<>> THEN <<>>
    ELSE LoadPdf(Head(files), Head(files) \in failing) \o LoadAll(Tail(files), failing)

\* doc.metadata["filename"] = Path(src).name for every document with a source
SetFilenames_Skip(ds) == ds
SetFilenames(ds) ==
    [i \in 1..Len(ds) |->
        IF ds[i].source # <<>>
        THEN [ds[i] EXCEPT !.filename = PathName(ds[i].source)]
        ELSE ds[i]]

\* splitter.split_documents(documents) for pages shorter than CHUNK_SIZE, as
\* all pages of PagesOf are: a page is one chunk, an empty page none
SplitDocuments(ds) == SelectSeq(ds, LAMBDA d : d.page_content # <<>>)

\* any(persist_dir.iterdir())
NonEmpty(cf, ix) == cf # NoFile \/ ix.exists

\* "not force_reindex and any(persist_dir.iterdir())"
ShouldReuse_IgnoreForce(force, cf, ix) == NonEmpty(cf, ix)
ShouldReuse(force, cf, ix) == ~force /\ NonEmpty(cf, ix)

\* "if force_reindex and persist_dir.exists(): shutil.rmtree(persist_dir)":
\* the directory's content afterwards
Wiped_Keep(force, exists, cf, ix) == [chunksFile |-> cf, index |-> ix]
Wiped(force, exists, cf, ix) ==
    IF force /\ exists THEN [chunksFile |-> NoFile, index |-> NoIndex]
    ELSE [chunksFile |-> cf, index |-> ix]

\* Chroma(persist_directory=...): opens the collection, creating it if absent
OpenIndex(ix) == [exists |-> TRUE, vectors |-> ix.vectors]

\* the vectors Chroma.from_documents adds for the chunks of build n
Vectors(chs, n) == {[doc |-> chs[i], build |-> n] : i \in 1..Len(chs)}

\* collection.upsert of the new vectors
AddVectors(ix, vs) == [ix EXCEPT !.vectors = ix.vectors \cup vs]

\* what a call has given its caller so far: the result of _build_vectorstore
\* (returned or raised, with the chunk list) and the kind of retriever that
\* init_rag makes from it
NoOutcome ==
    [status |-> "none", error |-> "none", reused |-> FALSE,
     chunks |-> NoChunks, message |-> [text |-> "", dir |-> <<>>], retriever |-> "none"]

\* a chunks.pkl that pickle.load cannot read
Unreadable == <<[unreadable |-> TRUE]>>

\* the reuse branch: "if chunks_path.exists(): try: pickle.load ... except
\* Exception: chunks = None", then the index and the chunk list are returned
ReuseOutcome_NoTry(cf) ==
    IF cf = Unreadable
    THEN [NoOutcome EXCEPT !.status = "raised", !.error = "pickle",
                           !.reused = TRUE]
    ELSE [NoOutcome EXCEPT !.status = "returned", !.reused = TRUE,
                           !.chunks = IF cf # NoFile THEN cf ELSE NoChunks]
ReuseOutcome(cf) ==
    [NoOutcome EXCEPT !.status = "returned", !.reused = TRUE,
                      !.chunks = IF cf # NoFile /\ cf # Unreadable
                                 THEN cf ELSE NoChunks]

\* the ValueError of the validation: "Pasta nao encontrada: {dir}" when the
\* directory is missing, "Nenhum PDF encontrado em {dir}" when the glob is
\* empty
ConfigError_NoDir(exists) ==
    [NoOutcome EXCEPT !.status = "raised", !.error = "config",
        !.message = [text |-> IF ~exists THEN "Pasta nao encontrada"
                              ELSE "Nenhum PDF encontrado",
                     dir |-> <<>>]]
ConfigError(exists) ==
    [NoOutcome EXCEPT !.status = "raised", !.error = "config",
        !.message = [text |-> IF ~exists THEN "Pasta nao encontrada"
                              ELSE "Nenhum PDF encontrado",
                     dir |-> <<"Base">>]]

\* no call made yet, nothing persisted
BFresh ==
    /\ envReindex = FALSE
    /\ persistExists = FALSE
    /\ chunksFile = NoFile
    /\ index = NoIndex
    /\ buildNo = 0
    /\ bpc = "idle"
    /\ viaRebuild = FALSE
    /\ force_reindex = FALSE
    /\ pdf_files = <<>>
    /\ documents = <<>>
    /\ chunks = <<>>
    /\ outcome = NoOutcome
    /\ dirAtCall = [chunksFile |-> NoFile, index |-> NoIndex]
    /\ effects = {}
    /\ embedFailed = FALSE

BInit ==
    /\ BFresh
    /\ dotenvReindex \in BOOLEAN
    /\ pdfDirExists \in BOOLEAN
    /\ corpus = {}

\* a file is put under the corpus directory (the directory is created)
AddFile ==
    /\ \E f \in Files \ corpus : corpus' = corpus \cup {f}
    /\ pdfDirExists' = TRUE
    /\ UNCHANGED <<envReindex, dotenvReindex, persistExists, chunksFile, index,
                   buildNo, bpc, viaRebuild, force_reindex, pdf_files,
                   documents, chunks, outcome, dirAtCall, effects, embedFailed>>
    /\ UNCHANGED nonBuild

\* a file is removed from the corpus directory
RemoveFile ==
    /\ \E f \in corpus : corpus' = corpus \ {f}
    /\ UNCHANGED <<envReindex, dotenvReindex, pdfDirExists, persistExists,
                   chunksFile, index, buildNo, bpc, viaRebuild, force_reindex,
                   pdf_files, documents, chunks, outcome, dirAtCall, effects,
                   embedFailed>>
    /\ UNCHANGED nonBuild

\* the locals of a new call
NewCall ==
    /\ bpc = "idle"
    /\ buildNo < MaxBuilds
    /\ buildNo' = buildNo + 1
    /\ bpc' = "enter"
    /\ force_reindex' = FALSE
    /\ pdf_files' = <<>>
    /\ documents' = <<>>
    /\ chunks' = <<>>
    /\ outcome' = NoOutcome
    /\ effects' = {}
    /\ UNCHANGED <<dotenvReindex, pdfDirExists, corpus, persistExists,
                   chunksFile, index, dirAtCall, embedFailed>>
    /\ UNCHANGED nonBuild

\* init_rag(base_dir) called directly: load_dotenv() sets REINDEX from .env
\* unless the environment already holds it
StartInit ==
    /\ NewCall
    /\ viaRebuild' = FALSE
    /\ envReindex' = (envReindex \/ dotenvReindex)

\* rebuild_rag: os.environ["REINDEX"] = "true", then init_rag(base_dir)
StartRebuild ==
    /\ NewCall
    /\ viaRebuild' = TRUE
    /\ envReindex' = TRUE

\* _build_vectorstore: persist_dir.mkdir(...), force_reindex read from the
\* environment
Enter ==
    /\ bpc = "enter"
    /\ persistExists' = TRUE
    /\ force_reindex' = envReindex
    /\ dirAtCall' = [chunksFile |-> chunksFile, index |-> index]
    /\ bpc' = "branch"
    /\ UNCHANGED <<envReindex, dotenvReindex, pdfDirExists, corpus, chunksFile,
                   index, buildNo, viaRebuild, pdf_files, documents, chunks,
                   outcome, effects, embedFailed>>
    /\ UNCHANGED nonBuild

\* the existing index is opened and returned with the pickled chunk list, or
\* with None when there is no chunks.pkl
Reuse ==
    /\ bpc = "branch"
    /\ ShouldReuse(force_reindex, chunksFile, index)
    /\ index' = OpenIndex(index)
    /\ outcome' = ReuseOutcome(chunksFile)
    /\ bpc' = "finish"
    /\ UNCHANGED <<envReindex, dotenvReindex, pdfDirExists, corpus,
                   persistExists, chunksFile, buildNo, viaRebuild,
                   force_reindex, pdf_files, documents, chunks, dirAtCall,
                   effects, embedFailed>>
    /\ UNCHANGED nonBuild

\* no reuse: a forced reindex removes the persist directory and makes it anew
Clear_ValidateFirst ==
    /\ bpc = "branch"
    /\ ~ShouldReuse(force_reindex, chunksFile, index)
    /\ LET d == Wiped(force_reindex /\ pdfDirExists /\ Glob(corpus) # <<>>,
                      persistExists, chunksFile, index)
       IN /\ chunksFile' = d.chunksFile
          /\ index' = d.index
    /\ effects' = IF force_reindex THEN effects \cup {"wipe"} ELSE effects
    /\ bpc' = "validate"
    /\ UNCHANGED <<envReindex, dotenvReindex, pdfDirExists, corpus,
                   persistExists, buildNo, viaRebuild, force_reindex,
                   pdf_files, documents, chunks, outcome, dirAtCall,
                   embedFailed>>
    /\ UNCHANGED nonBuild
Clear ==
    /\ bpc = "branch"
    /\ ~ShouldReuse(force_reindex, chunksFile, index)
    /\ LET d == Wiped(force_reindex, persistExists, chunksFile, index)
       IN /\ chunksFile' = d.chunksFile
          /\ index' = d.index
    /\ effects' = IF force_reindex THEN effects \cup {"wipe"} ELSE effects
    /\ bpc' = "validate"
    /\ UNCHANGED <<envReindex, dotenvReindex, pdfDirExists, corpus,
                   persistExists, buildNo, viaRebuild, force_reindex,
                   pdf_files, documents, chunks, outcome, dirAtCall,
                   embedFailed>>
    /\ UNCHANGED nonBuild

\* the corpus directory exists and holds PDFs: pdf_files is their sorted list
Validate ==
    /\ bpc = "validate"
    /\ pdfDirExists
    /\ Glob(corpus) # <<>>
    /\ pdf_files' = Glob(corpus)
    /\ bpc' = "load"
    /\ UNCHANGED <<envReindex, dotenvReindex, pdfDirExists, corpus,
                   persistExists, chunksFile, index, buildNo, viaRebuild,
                   force_reindex, documents, chunks, outcome, dirAtCall,
                   effects, embedFailed>>
    /\ UNCHANGED nonBuild

\* ValueError: the corpus directory is missing or holds no PDF
ValidateRaise ==
    /\ bpc = "validate"
    /\ ~pdfDirExists \/ Glob(corpus) = <<>>
    /\ outcome' = ConfigError(pdfDirExists)
    /\ bpc' = "finish"
    /\ UNCHANGED <<envReindex, dotenvReindex, pdfDirExists, corpus,
                   persistExists, chunksFile, index, buildNo, viaRebuild,
                   force_reindex, pdf_files, documents, chunks, dirAtCall,
                   effects, embedFailed>>
    /\ UNCHANGED nonBuild

\* the PDFs are extracted (a file that both loaders fail on, or that is gone
\* by now, gives no page) and every document gets its filename
Load ==
    /\ bpc = "load"
    /\ \E failing \in SUBSET Range(pdf_files) :
         /\ Range(pdf_files) \ corpus \subseteq failing
         /\ documents' = SetFilenames(LoadAll(pdf_files, failing))
    /\ effects' = effects \cup {"extract"}
    /\ bpc' = "split"
    /\ UNCHANGED <<envReindex, dotenvReindex, pdfDirExists, corpus,
                   persistExists, chunksFile, index, buildNo, viaRebuild,
                   force_reindex, pdf_files, chunks, outcome, dirAtCall,
                   embedFailed>>
    /\ UNCHANGED nonBuild

\* chunks = splitter.split_documents(documents)
Split ==
    /\ bpc = "split"
    /\ chunks' = SplitDocuments(documents)
    /\ effects' = effects \cup {"split"}
    /\ bpc' = "dump"
    /\ UNCHANGED <<envReindex, dotenvReindex, pdfDirExists, corpus,
                   persistExists, chunksFile, index, buildNo, viaRebuild,
                   force_reindex, pdf_files, documents, outcome, dirAtCall,
                   embedFailed>>
    /\ UNCHANGED nonBuild

\* pickle.dump(chunks, f) into chunks.pkl
Dump ==
    /\ bpc = "dump"
    /\ chunksFile' = chunks
    /\ bpc' = "index"
    /\ UNCHANGED <<envReindex, dotenvReindex, pdfDirExists, corpus,
                   persistExists, index, buildNo, viaRebuild, force_reindex,
                   pdf_files, documents, chunks, outcome, dirAtCall, effects,
                   embedFailed>>
    /\ UNCHANGED nonBuild

\* Chroma.from_documents embeds the chunks and adds their vectors
FromDocuments ==
    /\ bpc = "index"
    /\ index' = AddVectors(OpenIndex(index), Vectors(chunks, buildNo))
    /\ effects' = effects \cup {"embed"}
    /\ outcome' = [NoOutcome EXCEPT !.status = "returned", !.chunks = chunks]
    /\ bpc' = "finish"
    /\ UNCHANGED <<envReindex, dotenvReindex, pdfDirExists, corpus,
                   persistExists, chunksFile, buildNo, viaRebuild,
                   force_reindex, pdf_files, documents, chunks, dirAtCall,
                   embedFailed>>
    /\ UNCHANGED nonBuild

\* Chroma.from_documents raises (the embedding provider fails): the
\* collection exists by then, no vector was added
FromDocumentsRaise ==
    /\ bpc = "index"
    /\ index' = OpenIndex(index)
    /\ effects' = effects \cup {"embed"}
    /\ outcome' = [NoOutcome EXCEPT !.status = "raised", !.error = "provider"]
    /\ embedFailed' = TRUE
    /\ bpc' = "finish"
    /\ UNCHANGED <<envReindex, dotenvReindex, pdfDirExists, corpus,
                   persistExists, chunksFile, buildNo, viaRebuild,
                   force_reindex, pdf_files, documents, chunks, dirAtCall>>
    /\ UNCHANGED nonBuild

\* _build_vectorstore returns or raises to init_rag, which on a return makes
\* the retriever with _create_retriever(vectorstore, chunks) (BM25 may fail
\* to build); rebuild_rag's finally removes REINDEX from the environment
Finish ==
    /\ bpc = "finish"
    /\ envReindex' = IF viaRebuild THEN FALSE ELSE envReindex
    /\ \E r \in BOOLEAN :
         outcome' = IF outcome.status = "returned"
                    THEN [outcome EXCEPT !.retriever =
                            CreateRetriever(RETRIEVER_K, outcome.chunks, r).kind]
                    ELSE outcome
    /\ bpc' = "idle"
    /\ UNCHANGED <<dotenvReindex, pdfDirExists, corpus, persistExists,
                   chunksFile, index, buildNo, viaRebuild, force_reindex,
                   pdf_files, documents, chunks, dirAtCall, effects,
                   embedFailed>>
    /\ UNCHANGED nonBuild

BNext ==
    \/ AddFile
    \/ RemoveFile
    \/ StartInit
    \/ StartRebuild
    \/ Enter
    \/ Reuse
    \/ Clear
    \/ Validate
    \/ ValidateRaise
    \/ Load
    \/ Split
    \/ Dump
    \/ FromDocuments
    \/ FromDocumentsRaise
    \/ Finish

(* ---------------------------- extraction pool -------------------------- *)
\* the futures a worker thread is running
Running(ts) == {i \in 1..Len(ts) : ts[i].st \in {"primary", "secondary"}}

\* a future finishes while one submitted before it has not
Overtakes(ts, i) == \E j \in 1..(i - 1) : ts[j].st # "done"

PQuiet ==
    /\ tasks = <<>>
    /\ collected = <<>>
    /\ overtaken = FALSE

\* "with ThreadPoolExecutor(max_workers=4) as ex: ex.map(_load_pdf,
\* pdf_files)": every file is submitted at once, in the order of pdf_files
PoolSubmit ==
    /\ bpc = "load"
    /\ tasks' = [i \in 1..Len(pdf_files) |-> [st |-> "pending", log |-> <<>>, result |-> <<>>]]
    /\ collected' = <<>>
    /\ overtaken' = FALSE
    /\ effects' = effects \cup {"extract"}
    /\ bpc' = "pool"
    /\ UNCHANGED <<envReindex, dotenvReindex, pdfDirExists, corpus,
                   persistExists, chunksFile, index, buildNo, viaRebuild,
                   force_reindex, pdf_files, documents, chunks, outcome,
                   dirAtCall, embedFailed>>
    /\ UNCHANGED nonPool

\* what the steps of the worker threads leave alone
PoolFrame ==
    /\ UNCHANGED <<envReindex, dotenvReindex, pdfDirExists, corpus,
                   persistExists, chunksFile, index, buildNo, bpc, viaRebuild,
                   force_reindex, pdf_files, documents, chunks, outcome,
                   dirAtCall, effects, embedFailed, collected>>
    /\ UNCHANGED nonPool

\* a free worker (there are max_workers of them) takes the oldest queued
\* future and calls PyMuPDFLoader(str(path)).load()
WorkerTake ==
    /\ bpc = "pool"
    /\ Cardinality(Running(tasks)) < MAX_WORKERS
    /\ \E i \in 1..Len(tasks) :
         /\ tasks[i].st = "pending"
         /\ \A j \in 1..(i - 1) : tasks[j].st # "pending"
         /\ tasks' = [tasks EXCEPT ![i].st = "primary", ![i].log = <<"PyMuPDF">>]
    /\ UNCHANGED overtaken
    /\ PoolFrame

\* PyMuPDFLoader returns the pages of the file
PrimaryReturn ==
    /\ bpc = "pool"
    /\ \E i \in 1..Len(tasks) :
         /\ tasks[i].st = "primary"
         /\ tasks' = [tasks EXCEPT ![i].st = "done",
                                   ![i].result = LoadPdf(pdf_files[i], FALSE)]
         /\ overtaken' = (overtaken \/ Overtakes(tasks, i))
    /\ PoolFrame

\* PyMuPDFLoader raises: "except Exception: try: PyPDFLoader(str(path)).load()"
PrimaryRaise ==
    /\ bpc = "pool"
    /\ \E i \in 1..Len(tasks) :
         /\ tasks[i].st = "primary"
         /\ tasks' = [tasks EXCEPT ![i].st = "secondary",
                          ![i].log = @ \o <<"PyMuPDF raised", "PyPDF">>]
    /\ UNCHANGED overtaken
    /\ PoolFrame

\* PyPDFLoader returns the pages of the file
SecondaryReturn ==
    /\ bpc = "pool"
    /\ \E i \in 1..Len(tasks) :
         /\ tasks[i].st = "secondary"
         /\ tasks' = [tasks EXCEPT ![i].st = "done",
                                   ![i].result = LoadPdf(pdf_files[i], FALSE)]
         /\ overtaken' = (overtaken \/ Overtakes(tasks, i))
    /\ PoolFrame

\* PyPDFLoader raises too: "except Exception as e: print(...); return []"
SecondaryRaise_Abort ==
    /\ bpc = "pool"
    /\ \E i \in 1..Len(tasks) :
         /\ tasks[i].st = "secondary"
         /\ tasks' = [tasks EXCEPT ![i].st = "done",
                                   ![i].log = @ \o <<"PyPDF raised">>]
         /\ overtaken' = (overtaken \/ Overtakes(tasks, i))
    /\ outcome' = [NoOutcome EXCEPT !.status = "raised", !.error = "extract"]
    /\ bpc' = "finish"
    /\ UNCHANGED <<envReindex, dotenvReindex, pdfDirExists, corpus,
                   persistExists, chunksFile, index, buildNo, viaRebuild,
                   force_reindex, pdf_files, documents, chunks,
                   dirAtCall, effects, embedFailed, collected>>
    /\ UNCHANGED nonPool
SecondaryRaise ==
    /\ bpc = "pool"
    /\ \E i \in 1..Len(tasks) :
         /\ tasks[i].st = "secondary"
         /\ tasks' = [tasks EXCEPT ![i].st = "done",
                                   ![i].log = @ \o <<"PyPDF raised">>,
                                   ![i].result = LoadPdf(pdf_files[i], TRUE)]
         /\ overtaken' = (overtaken \/ Overtakes(tasks, i))
    /\ PoolFrame

\* "for doc_list in ex.map(...): documents.extend(doc_list)": the iterator
\* yields the results in the order of submission, waiting for each
Collect_AsCompleted ==
    /\ bpc = "pool"
    /\ \E i \in 1..Len(tasks) :
         /\ i \notin Range(collected)
         /\ tasks[i].st = "done"
         /\ documents' = documents \o tasks[i].result
         /\ collected' = Append(collected, i)
    /\ UNCHANGED <<envReindex, dotenvReindex, pdfDirExists, corpus,
                   persistExists, chunksFile, index, buildNo, bpc, viaRebuild,
                   force_reindex, pdf_files, chunks, outcome, dirAtCall,
                   effects, embedFailed, tasks, overtaken>>
    /\ UNCHANGED nonPool
Collect ==
    /\ bpc = "pool"
    /\ LET i == Len(collected) + 1 IN
         /\ i <= Len(tasks)
         /\ tasks[i].st = "done"
         /\ documents' = documents \o tasks[i].result
         /\ collected' = Append(collected, i)
    /\ UNCHANGED <<envReindex, dotenvReindex, pdfDirExists, corpus,
                   persistExists, chunksFile, index, buildNo, bpc, viaRebuild,
                   force_reindex, pdf_files, chunks, outcome, dirAtCall,
                   effects, embedFailed, tasks, overtaken>>
    /\ UNCHANGED nonPool

\* the iterator is exhausted and the executor shut down; every document
\* with a source gets its filename
PoolExit ==
    /\ bpc = "pool"
    /\ Len(collected) = Len(tasks)
    /\ documents' = SetFilenames(documents)
    /\ tasks' = <<>>
    /\ collected' = <<>>
    /\ overtaken' = FALSE
    /\ bpc' = "split"
    /\ UNCHANGED <<envReindex, dotenvReindex, pdfDirExists, corpus,
                   persistExists, chunksFile, index, buildNo, viaRebuild,
                   force_reindex, pdf_files, chunks, outcome, dirAtCall,
                   effects, embedFailed>>
    /\ UNCHANGED nonPool

\* a first installation with a batch of n PDFs under the corpus directory
\* (n = 0: the directory may be missing), REINDEX unset
PInit ==
    /\ BFresh
    /\ dotenvReindex = FALSE
    /\ \E n \in 0..MaxPoolFiles :
         /\ corpus = {PoolPath(i) : i \in 1..n}
         /\ pdfDirExists \in (IF n = 0 THEN BOOLEAN ELSE {TRUE})

\* init_rag with the workers of the extraction pool as threads of their own
PNext ==
    \/ StartInit
    \/ Enter
    \/ Reuse
    \/ Clear
    \/ Validate
    \/ ValidateRaise
    \/ PoolSubmit
    \/ WorkerTake
    \/ PrimaryReturn
    \/ PrimaryRaise
    \/ SecondaryReturn
    \/ SecondaryRaise
    \/ Collect
    \/ PoolExit
    \/ Split
    \/ Dump
    \/ FromDocuments
    \/ FromDocumentsRaise
    \/ Finish

(* ------------------------------- answering ----------------------------- *)
\* a string as the sequence of its characters
Chars(str) ==
    CASE str = "" -> <<>>
      [] str = "quais pdfs estao na base" ->
            <<"q", "u", "a", "i", "s", " ", "p", "d", "f", "s", " ", "e",
              "s", "t", "a", "o", " ", "n", "a", " ", "b", "a", "s", "e">>
      [] str = " QUAIS PDFS ESTAO NA BASE " ->
            <<" ", "Q", "U", "A", "I", "S", " ", "P", "D", "F", "S", " ",
              "E", "S", "T", "A", "O", " ", "N", "A", " ", "B", "A", "S",
              "E", " ">>
      [] str = "o que tem na base" ->
            <<"o", " ", "q", "u", "e", " ", "t", "e", "m", " ", "n", "a",
              " ", "b", "a", "s", "e">>
      [] str = "Qual o valor do contrato?" ->
            <<"Q", "u", "a", "l", " ", "o", " ", "v", "a", "l", "o", "r",
              " ", "d", "o", " ", "c", "o", "n", "t", "r", "a", "t", "o",
              "?">>
      [] str = "qual a data base de reajuste" ->
            <<"q", "u", "a", "l", " ", "a", " ", "d", "a", "t", "a", " ",
              "b", "a", "s", "e", " ", "d", "e", " ", "r", "e", "a", "j",
              "u", "s", "t", "e">>
      [] str = "resuma o documento" ->
            <<"r", "e", "s", "u", "m", "a", " ", "o", " ", "d", "o", "c",
              "u", "m", "e", "n", "t", "o">>
      [] str = "na base" ->
            <<"n", "a", " ", "b", "a", "s", "e">>
      [] str = "na pasta" ->
            <<"n", "a", " ", "p", "a", "s", "t", "a">>
      [] str = "na pasta base" ->
            <<"n", "a", " ", "p", "a", "s", "t", "a", " ", "b", "a", "s",
              "e">>
      [] str = "base de" ->
            <<"b", "a", "s", "e", " ", "d", "e">>
      [] str = "pdf" ->
            <<"p", "d", "f">>
      [] str = "pdfs" ->
            <<"p", "d", "f", "s">>
      [] str = "arquivo" ->
            <<"a", "r", "q", "u", "i", "v", "o">>
      [] str = "arquivos" ->
            <<"a", "r", "q", "u", "i", "v", "o", "s">>
      [] str = "documento" ->
            <<"d", "o", "c", "u", "m", "e", "n", "t", "o">>
      [] str = "documentos" ->
            <<"d", "o", "c", "u", "m", "e", "n", "t", "o", "s">>
      [] str = "base" ->
            <<"b", "a", "s", "e">>
      [] str = "esta" ->
            <<"e", "s", "t", "a">>
      [] str = "tem" ->
            <<"t", "e", "m">>
      [] str = "quais" ->
            <<"q", "u", "a", "i", "s">>
      [] str = "lista" ->
            <<"l", "i", "s", "t", "a">>
      [] str = "o que" ->
            <<"o", " ", "q", "u", "e">>
      [] str = "Base" ->
            <<"B", "a", "s", "e">>
      [] str = "sub" ->
            <<"s", "u", "b">>
      [] str = "a.pdf" ->
            <<"a", ".", "p", "d", "f">>
      [] str = "b.pdf" ->
            <<"b", ".", "p", "d", "f">>
      [] str = "ba.pdf" ->
            <<"b", "a", ".", "p", "d", "f">>
      [] str = "zz.pdf" ->
            <<"z", "z", ".", "p", "d", "f">>
      [] str = "/filter a.pdf" ->
            <<"/", "f", "i", "l", "t", "e", "r", " ", "a", ".", "p", "d",
              "f">>
      [] str = "/filter zz.pdf" ->
            <<"/", "f", "i", "l", "t", "e", "r", " ", "z", "z", ".", "p",
              "d", "f">>
      [] str = "/filter off" ->
            <<"/", "f", "i", "l", "t", "e", "r", " ", "o", "f", "f">>
      [] str = "/filter  OFF" ->
            <<"/", "f", "i", "l", "t", "e", "r", " ", " ", "O", "F", "F">>
      [] str = "/filter  OFF " ->
            <<"/", "f", "i", "l", "t", "e", "r", " ", " ", "O", "F", "F",
              " ">>
      [] str = "/filter" ->
            <<"/", "f", "i", "l", "t", "e", "r">>
      [] str = "/filter " ->
            <<"/", "f", "i", "l", "t", "e", "r", " ">>
      [] str = "/historico" ->
            <<"/", "h", "i", "s", "t", "o", "r", "i", "c", "o">>
      [] str = " /limpar " ->
            <<" ", "/", "l", "i", "m", "p", "a", "r", " ">>
      [] str = "/limpar" ->
            <<"/", "l", "i", "m", "p", "a", "r">>
      [] str = "off" ->
            <<"o", "f", "f">>

\* the questions asked in the model
Questions ==
    {Chars("quais pdfs estao na base"), Chars(" QUAIS PDFS ESTAO NA BASE "),
     Chars("o que tem na base"), Chars("Qual o valor do contrato?"),
     Chars("qual a data base de reajuste"), Chars("resuma o documento")}

\* _TERMOS_BASE and _TERMOS_ARQUIVO
TERMOS_BASE ==
    {Chars("na base"), Chars("na pasta"), Chars("na pasta base"), Chars("base de")}

TERMOS_ARQUIVO ==
    {Chars("pdf"), Chars("pdfs"), Chars("arquivo"), Chars("arquivos"),
     Chars("documento"), Chars("documentos")}

\* str.lower() on the letters of the questions
Lower(s) ==
    [i \in 1..Len(s) |->
        CASE s[i] = "A" -> "a" [] s[i] = "B" -> "b" [] s[i] = "D" -> "d"
          [] s[i] = "E" -> "e" [] s[i] = "F" -> "f" [] s[i] = "I" -> "i"
          [] s[i] = "N" -> "n" [] s[i] = "O" -> "o" [] s[i] = "P" -> "p"
          [] s[i] = "Q" -> "q" [] s[i] = "S" -> "s" [] s[i] = "T" -> "t"
          [] s[i] = "U" -> "u"
          [] OTHER -> s[i]]

\* str.strip(): leading and trailing blanks removed
RECURSIVE Strip(_)
Strip(s) ==
    IF s # <<>> /\ Head(s) = " " THEN Strip(Tail(s))
    ELSE IF s # <<>> /\ s[Len(s)] = " " THEN Strip(SubSeq(s, 1, Len(s) - 1))
    ELSE s

\* "t in s" for strings: t occurs in s as a contiguous piece
Contains(s, t) ==
    \E i \in 0..(Len(s) - Len(t)) : SubSeq(s, i + 1, i + Len(t)) = t

\* _is_question_about_pdfs_in_base(question)
IsMeta_NoLower(qn) ==
    LET q == Strip(qn)
        tem_base == \/ \E t \in TERMOS_BASE : Contains(q, t)
                    \/ /\ Contains(q, Chars("base"))
                       /\ Contains(q, Chars("esta")) \/ Contains(q, Chars("tem"))
        tem_arquivo == \/ \E t \in TERMOS_ARQUIVO : Contains(q, t)
                       \/ Contains(q, Chars("quais")) \/ Contains(q, Chars("lista"))
    IN  tem_base /\ (tem_arquivo \/ Contains(q, Chars("quais")) \/ Contains(q, Chars("lista"))
                        \/ Contains(q, Chars("o que")))
IsMeta(qn) ==
    LET q == Strip(Lower(qn))
        tem_base == \/ \E t \in TERMOS_BASE : Contains(q, t)
                    \/ /\ Contains(q, Chars("base"))
                       /\ Contains(q, Chars("esta")) \/ Contains(q, Chars("tem"))
        tem_arquivo == \/ \E t \in TERMOS_ARQUIVO : Contains(q, t)
                       \/ Contains(q, Chars("quais")) \/ Contains(q, Chars("lista"))
    IN  tem_base /\ (tem_arquivo \/ Contains(q, Chars("quais")) \/ Contains(q, Chars("lista"))
                        \/ Contains(q, Chars("o que")))

\* what answer_question returns as its first component
Answer(kind, names) == [kind |-> kind, names |-> names]

\* _list_pdfs_in_base(pdf_dir): the message, with the numbered file names
ListPdfs(exists, dir) ==
    IF ~exists THEN Answer("A pasta Base nao foi encontrada", <<>>)
    ELSE IF Glob(dir) = <<>>
         THEN Answer("Nenhum arquivo PDF encontrado na pasta Base", <<>>)
         ELSE Answer("Os seguintes arquivo(s) PDF estao na base",
                     [i \in 1..Len(Glob(dir)) |-> <<i, PathName(Glob(dir)[i])>>])

\* str(path), the value of metadata["source"]
RECURSIVE PathString(_)
PathString(p) ==
    IF p = <<>> THEN <<>>
    ELSE IF Len(p) = 1 THEN Chars(p[1])
    ELSE Chars(p[1]) \o <<"/">> \o PathString(Tail(p))

\* filter_source: None, or a string
NoFilter == [given |-> FALSE, name |-> ""]

FilterOn(n) == [given |-> TRUE, name |-> n]

\* "if filter_source and vectorstore": both callers pass the vector store of
\* init_rag, which is never None
FilterActive_Never(f, vs) == FALSE
FilterActive(f, vs) == f.given /\ f.name # "" /\ vs

\* a chunk of an index built before the filename key was written
Old(d) == [d EXCEPT !.filename = ""]

E1 == Doc(<<"C">>, PathBA, 0, "ba.pdf")

\* the documents of the collection
StoreDocs(ix) == {v.doc : v \in ix.vectors}

\* the orders in which a similarity search can rank the documents set
Rankings(set) ==
    {r \in [1..Cardinality(set) -> set] : \A i, j \in DOMAIN r : i # j => r[i] # r[j]}

\* vectorstore.similarity_search(question, k=kk, filter={"filename":
\* {"$eq": name}}): the kk best chunks among those with that filename
FilteredSearch(rk, kk, name) ==
    TakeFirst(SelectSeq(rk, LAMBDA d : d.filename = name), kk)

\* vectorstore.similarity_search(question, k=kk)
Search(rk, kk) == TakeFirst(rk, kk)

\* "[d for d in all_docs if filter_source in d.metadata.get("source", "") or
\* d.metadata.get("filename", "") == filter_source]", then docs[:RETRIEVER_K]
ClientFilter(all_docs, name, kk) ==
    TakeFirst(SelectSeq(all_docs,
                LAMBDA d : \/ Contains(PathString(d.source), Chars(name))
                           \/ d.filename = name),
              kk)

\* history[-5:]
TakeLast_All(s, n) == s
TakeLast(s, n) == SubSeq(s, Max(1, Len(s) - n + 1), Len(s))

\* _get_source_label(doc): "name (pagina N)", the bare name, or "Documento";
\* pagina holds the page printed, if one is
SourceLabel_ZeroIsFalsy(d) ==
    IF d.source # <<>>
    THEN IF d.page # NoPage /\ d.page # 0
         THEN [text |-> PathName(d.source), pagina |-> <<d.page>>]
         ELSE [text |-> PathName(d.source), pagina |-> <<>>]
    ELSE [text |-> "Documento", pagina |-> <<>>]
SourceLabel(d) ==
    IF d.source # <<>>
    THEN IF d.page # NoPage
         THEN [text |-> PathName(d.source), pagina |-> <<d.page>>]
         ELSE [text |-> PathName(d.source), pagina |-> <<>>]
    ELSE [text |-> "Documento", pagina |-> <<>>]

\* the context: one block "[Fonte i - label]\n text" per chunk, numbered from
\* 1 in the order of docs
Context_Reversed(ds) ==
    [i \in 1..Len(ds) |-> [n |-> i, label |-> SourceLabel(ds[Len(ds) + 1 - i]),
                           text |-> ds[Len(ds) + 1 - i].page_content]]
Context(ds) ==
    [i \in 1..Len(ds) |-> [n |-> i, label |-> SourceLabel(ds[i]),
                           text |-> ds[i].page_content]]

NoReply == [status |-> "none", answer |-> Answer("", <<>>), sources |-> <<>>]

Returned(ans, srcs) == [status |-> "returned", answer |-> ans, sources |-> srcs]

Raised == [status |-> "raised", answer |-> Answer("", <<>>), sources |-> <<>>]

\* no question asked yet
AQuiet ==
    /\ question = <<>>
    /\ filter_source = NoFilter
    /\ history = <<>>
    /\ ranking = <<>>
    /\ docs = <<>>
    /\ calls = <<>>
    /\ reply = NoReply
    /\ apc = "idle"

\* a caller (main.py, app_streamlit.py) calls answer_question(question,
\* retriever, llm, pdf_dir, history=..., filter_source=..., vectorstore=...)
Ask ==
    /\ apc = "idle"
    /\ question' \in Questions
    /\ filter_source' \in {NoFilter, FilterOn(""), FilterOn("a.pdf"),
                          FilterOn("ba.pdf"), FilterOn("zz.pdf")}
    /\ \E h \in {0, 1, HISTORY_TURNS, MaxHistory} : history' = [i \in 1..h |-> i]
    /\ ranking' = <<>>
    /\ docs' = <<>>
    /\ calls' = <<>>
    /\ reply' = NoReply
    /\ apc' = "start"
    /\ UNCHANGED nonAnswer

\* the question is about the PDFs of the base: the listing is returned
MetaAnswer ==
    /\ apc = "start"
    /\ IsMeta(question)
    /\ reply' = Returned(ListPdfs(pdfDirExists, corpus), <<>>)
    /\ apc' = "returned"
    /\ UNCHANGED <<question, filter_source, history, ranking, docs, calls>>
    /\ UNCHANGED nonAnswer

\* the similarity search with the filename filter; an exception of it is
\* swallowed ("except Exception: docs = []")
ExactSearch ==
    /\ apc = "start"
    /\ ~IsMeta(question)
    /\ FilterActive(filter_source, TRUE)
    /\ \E rk \in Rankings(StoreDocs(index)), fails \in BOOLEAN :
         /\ ranking' = rk
         /\ docs' = IF fails THEN <<>>
                    ELSE FilteredSearch(rk, retrieverK, filter_source.name)
         /\ calls' = Append(calls, [op |-> "similarity_search", k |-> retrieverK,
                                     filter |-> filter_source.name,
                                     raised |-> fails, found |-> Len(docs')])
    /\ apc' = IF docs' = <<>> THEN "fallback" ELSE "retrieved"
    /\ UNCHANGED <<question, filter_source, history, reply>>
    /\ UNCHANGED nonAnswer

\* "if not docs": the search without filter over 2K candidates, filtered in
\* Python
FallbackSearch ==
    /\ apc = "fallback"
    /\ calls' = Append(calls, [op |-> "similarity_search", k |-> retrieverK * 2,
                                filter |-> "", raised |-> FALSE,
                                found |-> Len(Search(ranking, retrieverK * 2))])
    /\ docs' = ClientFilter(Search(ranking, retrieverK * 2), filter_source.name,
                            retrieverK)
    /\ apc' = "retrieved"
    /\ UNCHANGED <<question, filter_source, history, ranking, reply>>
    /\ UNCHANGED nonAnswer

\* the search without filter raises (it is outside the try): the exception
\* leaves answer_question
FallbackSearchRaise ==
    /\ apc = "fallback"
    /\ calls' = Append(calls, [op |-> "similarity_search", k |-> retrieverK * 2,
                                filter |-> "", raised |-> TRUE, found |-> 0])
    /\ reply' = Raised
    /\ apc' = "raised"
    /\ UNCHANGED <<question, filter_source, history, ranking, docs>>
    /\ UNCHANGED nonAnswer

\* no filter: docs = retriever.invoke(question); the retriever returns at
\* most K of the indexed chunks
Invoke ==
    /\ apc = "start"
    /\ ~IsMeta(question)
    /\ ~FilterActive(filter_source, TRUE)
    /\ \E rk \in Rankings(StoreDocs(index)), n \in 0..retrieverK :
         /\ ranking' = rk
         /\ docs' = TakeFirst(rk, n)
    /\ calls' = Append(calls, [op |-> "retriever.invoke", raised |-> FALSE])
    /\ apc' = "retrieved"
    /\ UNCHANGED <<question, filter_source, history, reply>>
    /\ UNCHANGED nonAnswer

\* retriever.invoke raises
InvokeRaise ==
    /\ apc = "start"
    /\ ~IsMeta(question)
    /\ ~FilterActive(filter_source, TRUE)
    /\ calls' = Append(calls, [op |-> "retriever.invoke", raised |-> TRUE])
    /\ reply' = Raised
    /\ apc' = "raised"
    /\ UNCHANGED <<question, filter_source, history, ranking, docs>>
    /\ UNCHANGED nonAnswer

\* "if not docs: return (<nothing found>, [])"
NothingFound ==
    /\ apc = "retrieved"
    /\ docs = <<>>
    /\ reply' = Returned(Answer("Nenhum trecho relevante encontrado", <<>>), <<>>)
    /\ apc' = "returned"
    /\ UNCHANGED <<question, filter_source, history, ranking, docs, calls>>
    /\ UNCHANGED nonAnswer

\* the prompt is filled with the context blocks and the last turns of the
\* history and given to the model; its reply is returned with docs
Generate_Always ==
    /\ apc = "retrieved"
    /\ calls' = Append(calls, [op |-> "llm", context |-> Context(docs),
                                hist |-> TakeLast(history, HISTORY_TURNS),
                                raised |-> FALSE])
    /\ reply' = Returned(Answer("response.content", <<>>), docs)
    /\ apc' = "returned"
    /\ UNCHANGED <<question, filter_source, history, ranking, docs>>
    /\ UNCHANGED nonAnswer
Generate ==
    /\ apc = "retrieved"
    /\ docs # <<>>
    /\ calls' = Append(calls, [op |-> "llm", context |-> Context(docs),
                                hist |-> TakeLast(history, HISTORY_TURNS),
                                raised |-> FALSE])
    /\ reply' = Returned(Answer("response.content", <<>>), docs)
    /\ apc' = "returned"
    /\ UNCHANGED <<question, filter_source, history, ranking, docs>>
    /\ UNCHANGED nonAnswer

\* the model call raises
GenerateRaise ==
    /\ apc = "retrieved"
    /\ docs # <<>>
    /\ calls' = Append(calls, [op |-> "llm", context |-> Context(docs),
                                hist |-> TakeLast(history, HISTORY_TURNS),
                                raised |-> TRUE])
    /\ reply' = Raised
    /\ apc' = "raised"
    /\ UNCHANGED <<question, filter_source, history, ranking, docs>>
    /\ UNCHANGED nonAnswer

\* the caller has taken the pair or the exception; the locals of the call
\* are gone
Leave ==
    /\ apc \in {"returned", "raised"}
    /\ question' = <<>>
    /\ filter_source' = NoFilter
    /\ history' = <<>>
    /\ ranking' = <<>>
    /\ docs' = <<>>
    /\ calls' = <<>>
    /\ reply' = NoReply
    /\ apc' = "idle"
    /\ UNCHANGED nonAnswer

ANext ==
    \/ Ask
    \/ Leave
    \/ MetaAnswer
    \/ ExactSearch
    \/ FallbackSearch
    \/ FallbackSearchRaise
    \/ Invoke
    \/ InvokeRaise
    \/ NothingFound
    \/ Generate
    \/ GenerateRaise

\* the installations the questions are asked on: the corpus directory and
\* the chunks of the index; the last one holds chunks that did not come from
\* the PDF loader, one without "page" and one without "source"
Scenarios ==
    {[exists |-> FALSE, corpus |-> {},
      store |-> {}],
     [exists |-> TRUE, corpus |-> {PathN},
      store |-> {}],
     [exists |-> TRUE, corpus |-> {PathA, PathBA, PathN, PathB},
      store |-> {D1, D3, D2, E1}],
     [exists |-> TRUE, corpus |-> {PathA, PathBA, PathN, PathB},
      store |-> {Old(D1), Old(D3), Old(D2), Old(E1)}],
     [exists |-> TRUE, corpus |-> {PathA, PathBA},
      store |-> {E1}],
     [exists |-> TRUE, corpus |-> {PathBA},
      store |-> {E1}],
     [exists |-> TRUE, corpus |-> {PathA},
      store |-> {D1, Doc(<<"F">>, PathA, 0, "a.pdf"),
                              Doc(<<"D">>, PathA, NoPage, "a.pdf"),
                              Doc(<<"E">>, <<>>, 3, "")}]}

\* init_rag has returned on one of the installations
AInit ==
    /\ \E sc \in Scenarios :
         /\ pdfDirExists = sc.exists
         /\ corpus = sc.corpus
         /\ index = [exists |-> TRUE, vectors |-> {[doc |-> d, build |-> 1] : d \in sc.store}]
    /\ envReindex = FALSE
    /\ dotenvReindex = FALSE
    /\ persistExists = TRUE
    /\ chunksFile = NoFile
    /\ buildNo = 1
    /\ bpc = "idle"
    /\ viaRebuild = FALSE
    /\ force_reindex = FALSE
    /\ pdf_files = <<>>
    /\ documents = <<>>
    /\ chunks = <<>>
    /\ outcome = NoOutcome
    /\ dirAtCall = [chunksFile |-> NoFile, index |-> NoIndex]
    /\ effects = {}
    /\ embedFailed = FALSE

\* chunks.pkl disappears from the persist directory (or the directory comes
\* from an installation that never wrote one): chunks_path.exists() is false
DeleteChunksFile ==
    /\ chunksFile # NoFile
    /\ chunksFile' = NoFile
    /\ UNCHANGED <<envReindex, dotenvReindex, pdfDirExists, corpus,
                   persistExists, index, buildNo, bpc, viaRebuild,
                   force_reindex, pdf_files, documents, chunks, outcome,
                   dirAtCall, effects, embedFailed>>
    /\ UNCHANGED nonBuild

\* chunks.pkl is truncated or overwritten: pickle.load raises on it
CorruptChunksFile ==
    /\ chunksFile # NoFile /\ chunksFile # Unreadable
    /\ chunksFile' = Unreadable
    /\ UNCHANGED <<envReindex, dotenvReindex, pdfDirExists, corpus,
                   persistExists, index, buildNo, bpc, viaRebuild,
                   force_reindex, pdf_files, documents, chunks, outcome,
                   dirAtCall, effects, embedFailed>>
    /\ UNCHANGED nonBuild

\* the calls of BNext with a chunks.pkl that can get lost or damaged
DNext ==
    \/ AddFile
    \/ RemoveFile
    \/ StartInit
    \/ StartRebuild
    \/ Enter
    \/ Reuse
    \/ Clear
    \/ Validate
    \/ ValidateRaise
    \/ Load
    \/ Split
    \/ Dump
    \/ FromDocuments
    \/ FromDocumentsRaise
    \/ Finish
    \/ DeleteChunksFile
    \/ CorruptChunksFile

\* another thread of the process enters rebuild_rag, or _load_rag_cached with
\* _reindex true: os.environ["REINDEX"] = "true"
OtherSet ==
    /\ ~envReindex
    /\ envReindex' = TRUE
    /\ UNCHANGED <<dotenvReindex, pdfDirExists, corpus, persistExists,
                   chunksFile, index, buildNo, bpc, viaRebuild, force_reindex,
                   pdf_files, documents, chunks, outcome, dirAtCall, effects,
                   embedFailed>>
    /\ UNCHANGED nonBuild

\* another thread reaches the finally of rebuild_rag or _load_rag_cached:
\* os.environ.pop("REINDEX", None)
OtherPop ==
    /\ envReindex
    /\ envReindex' = FALSE
    /\ UNCHANGED <<dotenvReindex, pdfDirExists, corpus, persistExists,
                   chunksFile, index, buildNo, bpc, viaRebuild, force_reindex,
                   pdf_files, documents, chunks, outcome, dirAtCall, effects,
                   embedFailed>>
    /\ UNCHANGED nonBuild

\* the calls of BNext while other threads of the process set and remove
\* REINDEX
CNext ==
    \/ AddFile
    \/ RemoveFile
    \/ StartInit
    \/ StartRebuild
    \/ Enter
    \/ Reuse
    \/ Clear
    \/ Validate
    \/ ValidateRaise
    \/ Load
    \/ Split
    \/ Dump
    \/ FromDocuments
    \/ FromDocumentsRaise
    \/ Finish
    \/ OtherSet
    \/ OtherPop

\* the index store before any call, on a fresh installation
BQuiet ==
    /\ BInit
    /\ dotenvReindex = FALSE
    /\ pdfDirExists = FALSE

\* the retriever before its construction, with the default budget
HQuiet ==
    /\ HInit
    /\ retrieverK = RETRIEVER_K

(* --------------------------- command line loop ------------------------- *)
\* main.py keeps the last 5 turns of the conversation
CLI_TURNS == 5

\* the loop has not been started
CQuiet ==
    /\ cpc = "off"
    /\ cliLine = <<>>
    /\ cliHistory = <<>>
    /\ cliFilter = NoFilter
    /\ pdf_names = {}
    /\ turns = 0

\* the lines typed at the prompt "Pergunta: "
Lines ==
    {Chars(""), Chars("/filter a.pdf"), Chars("/filter zz.pdf"),
     Chars("/filter off"), Chars("/filter  OFF "), Chars("/filter"),
     Chars("/historico"), Chars(" /limpar "),
     Chars("Qual o valor do contrato?"), Chars("quais pdfs estao na base")}

\* what the loop takes the stripped line for: the end of the session, one of
\* the inline commands (val is question[8:].strip()), or a question
Command(line) ==
    IF line = <<>> THEN [kind |-> "quit", val |-> <<>>]
    ELSE IF Len(line) >= 8 /\ SubSeq(line, 1, 8) = Chars("/filter ")
         THEN [kind |-> "filter", val |-> Strip(SubSeq(line, 9, Len(line)))]
    ELSE IF line = Chars("/historico") THEN [kind |-> "historico", val |-> <<>>]
    ELSE IF line = Chars("/limpar") THEN [kind |-> "limpar", val |-> <<>>]
    ELSE [kind |-> "question", val |-> <<>>]

\* "/filter val": off clears the filter, a name of the listing becomes the
\* filter, anything else leaves it as it is
NewFilter_Unchecked(val, names, cur) ==
    IF Lower(val) = Chars("off") THEN NoFilter
    ELSE FilterOn(CHOOSE n \in {"a.pdf", "b.pdf", "ba.pdf", "zz.pdf"} :
                      Chars(n) = val)
NewFilter(val, names, cur) ==
    IF Lower(val) = Chars("off") THEN NoFilter
    ELSE IF \E n \in names : Chars(n) = val
         THEN FilterOn(CHOOSE n \in names : Chars(n) = val)
         ELSE cur

\* main.py is started, with or without --filter, after init_rag returned:
\* history is empty, the filter is the argument as given, pdf_names are the
\* names under the corpus directory; the loop is followed on the installation
\* that holds a.pdf and ba.pdf
CliStart ==
    /\ corpus = {PathA, PathBA}
    /\ cpc = "prompt"
    /\ cliLine = <<>>
    /\ cliHistory = <<>>
    /\ cliFilter \in {NoFilter, FilterOn("ba.pdf"), FilterOn("zz.pdf")}
    /\ pdf_names = IF pdfDirExists THEN {PathName(f) : f \in Range(Glob(corpus))}
                   ELSE {}
    /\ turns = 0

\* an empty line ends the loop
CliQuit ==
    /\ cpc = "prompt"
    /\ \E raw \in Lines :
         /\ Command(Strip(raw)).kind = "quit"
         /\ cliLine' = Strip(raw)
    /\ cpc' = "ended"
    /\ UNCHANGED <<cliHistory, cliFilter, pdf_names, turns>>
    /\ UNCHANGED <<hvars, bvars, pvars, avars, webvars>>

\* "/filter ...", "/historico" or "/limpar": the command is carried out and
\* the loop continues with the next line
CliCommand ==
    /\ cpc = "prompt"
    /\ \E raw \in Lines :
         LET c == Command(Strip(raw))
         IN  /\ c.kind \in {"filter", "historico", "limpar"}
             /\ cliLine' = Strip(raw)
             /\ cliFilter' = IF c.kind = "filter"
                             THEN NewFilter(c.val, pdf_names, cliFilter)
                             ELSE cliFilter
             /\ cliHistory' = IF c.kind = "limpar" THEN <<>> ELSE cliHistory
    /\ UNCHANGED <<cpc, pdf_names, turns>>
    /\ UNCHANGED <<hvars, bvars, pvars, avars, webvars>>

\* any other line is a question: answer_question(question, ...,
\* history=history, filter_source=filter_source, ...)
CliAsk ==
    /\ cpc = "prompt"
    /\ turns < MaxTurns
    /\ \E raw \in Lines :
         /\ Command(Strip(raw)).kind = "question"
         /\ cliLine' = Strip(raw)
         /\ question' = Strip(raw)
    /\ filter_source' = cliFilter
    /\ history' = cliHistory
    /\ ranking' = <<>>
    /\ docs' = <<>>
    /\ calls' = <<>>
    /\ reply' = NoReply
    /\ apc' = "start"
    /\ cpc' = "call"
    /\ UNCHANGED <<cliHistory, cliFilter, pdf_names, turns>>
    /\ UNCHANGED <<hvars, bvars, pvars, webvars>>

\* answer_question returned: the turn is appended and the history cut to its
\* last 5 turns
CliTurn ==
    /\ cpc = "call"
    /\ apc = "returned"
    /\ turns' = turns + 1
    /\ cliHistory' = TakeLast(Append(cliHistory, turns + 1), CLI_TURNS)
    /\ question' = <<>>
    /\ filter_source' = NoFilter
    /\ history' = <<>>
    /\ ranking' = <<>>
    /\ docs' = <<>>
    /\ calls' = <<>>
    /\ reply' = NoReply
    /\ apc' = "idle"
    /\ cpc' = "prompt"
    /\ UNCHANGED <<cliLine, cliFilter, pdf_names>>
    /\ UNCHANGED <<hvars, bvars, pvars, webvars>>

\* answer_question raised: nothing in the loop catches it, the program ends
CliCrash ==
    /\ cpc = "call"
    /\ apc = "raised"
    /\ cpc' = "ended"
    /\ UNCHANGED <<cliLine, cliHistory, cliFilter, pdf_names, turns>>
    /\ UNCHANGED <<hvars, bvars, pvars, avars, webvars>>

\* answer_question called by the command line loop, or directly with any
\* history and filter when the loop is not running; files can leave the
\* corpus directory while the loop waits for a line
CallersNext ==
    \/ (cpc = "off" /\ Ask)
    \/ (cpc = "off" /\ Leave)
    \/ (cpc = "prompt" /\ RemoveFile)
    \/ CliQuit
    \/ CliCommand
    \/ CliAsk
    \/ CliTurn
    \/ CliCrash
    \/ MetaAnswer
    \/ ExactSearch
    \/ FallbackSearch
    \/ FallbackSearchRaise
    \/ Invoke
    \/ InvokeRaise
    \/ NothingFound
    \/ Generate
    \/ GenerateRaise

(* -------------------------------- web page ----------------------------- *)
\* no script run of the page yet
WQuiet ==
    /\ messages = <<>>
    /\ storeMessages = <<>>
    /\ rag_version = 0
    /\ reindex_needed = FALSE
    /\ cache = {}
    /\ rag = [loaded |-> FALSE, version |-> 0, forced |-> FALSE]
    /\ loaded = "none"

\* st.session_state.messages keeps the last 10 messages
WEB_MESSAGES == 10

\* the key under which st.cache_resource stores a result of
\* _load_rag_cached(_base_dir_str, _version, _reindex): the arguments whose
\* parameter name does not begin with an underscore, of which there is none
CacheKey(base_dir_str, version, reindex) == <<>>

\* "_reindex = st.session_state.pop("reindex_needed", False)", then
\* _load_rag_cached(str(base_dir), rag_version, _reindex): the cached handle
\* if there is one under the key, else what init_rag returns, which is cached,
\* or None when init_rag raises (ok false)
LoadRag(ok) ==
    LET key == CacheKey("base_dir", rag_version, reindex_needed)
        hit == {e \in cache : e.key = key}
        new == [loaded |-> TRUE, version |-> rag_version, forced |-> reindex_needed]
    IN  IF hit # {}
        THEN [cache |-> cache, rag |-> (CHOOSE e \in hit : TRUE).value,
              loaded |-> "hit"]
        ELSE IF ok
        THEN [cache |-> cache \cup {[key |-> key, value |-> new]}, rag |-> new,
              loaded |-> IF reindex_needed THEN "forced" ELSE "ran"]
        ELSE [cache |-> cache,
              rag |-> [loaded |-> FALSE, version |-> 0, forced |-> FALSE],
              loaded |-> "raised"]

\* "if not st.session_state.messages and store[sid].get("messages")": the
\* messages are restored from the store
Restored ==
    IF messages = <<>> /\ storeMessages # <<>> THEN storeMessages ELSE messages

\* a script run without upload, click or prompt
RunPlain ==
    /\ \E ok \in BOOLEAN :
         /\ cache' = LoadRag(ok).cache
         /\ rag' = LoadRag(ok).rag
         /\ loaded' = LoadRag(ok).loaded
    /\ reindex_needed' = FALSE
    /\ messages' = Restored
    /\ UNCHANGED <<storeMessages, rag_version>>
    /\ UNCHANGED <<hvars, bvars, pvars, avars, clivars>>

\* a script run with uploaded files: they are written, rag_version is
\* incremented, reindex_needed is set and the script is run again
RunUpload ==
    /\ rag_version < MaxUploads
    /\ \E ok \in BOOLEAN :
         /\ cache' = LoadRag(ok).cache
         /\ rag' = LoadRag(ok).rag
         /\ loaded' = LoadRag(ok).loaded
    /\ rag_version' = rag_version + 1
    /\ reindex_needed' = TRUE
    /\ messages' = Restored
    /\ UNCHANGED storeMessages
    /\ UNCHANGED <<hvars, bvars, pvars, avars, clivars>>

\* a script run with the button "Limpar historico" pressed
RunClear ==
    /\ \E ok \in BOOLEAN :
         /\ cache' = LoadRag(ok).cache
         /\ rag' = LoadRag(ok).rag
         /\ loaded' = LoadRag(ok).loaded
    /\ reindex_needed' = FALSE
    /\ messages' = <<>>
    /\ storeMessages' = <<>>
    /\ UNCHANGED rag_version
    /\ UNCHANGED <<hvars, bvars, pvars, avars, clivars>>

\* a script run with a prompt: the user message is appended and mirrored;
\* without rag the error message is appended; with rag answer_question is
\* called and, when it returns, the answer is appended, the messages are cut
\* to the last 10 and mirrored
RunPrompt ==
    /\ Len(Restored) < MaxMessages
    /\ \E ok \in BOOLEAN, raises \in BOOLEAN :
         LET asked == Append(Restored, "user")
             answered == Append(asked, "assistant")
         IN  /\ cache' = LoadRag(ok).cache
             /\ rag' = LoadRag(ok).rag
             /\ loaded' = LoadRag(ok).loaded
             /\ IF ~rag'.loaded
                THEN /\ messages' = answered
                     /\ storeMessages' = asked
                ELSE IF raises
                THEN /\ messages' = asked
                     /\ storeMessages' = asked
                ELSE /\ messages' = TakeLast(answered, WEB_MESSAGES)
                     /\ storeMessages' = messages'
    /\ reindex_needed' = FALSE
    /\ UNCHANGED rag_version
    /\ UNCHANGED <<hvars, bvars, pvars, avars, clivars>>

WNext ==
    \/ RunPlain
    \/ RunUpload
    \/ RunClear
    \/ RunPrompt

(* ------------------- properties of the hybrid retriever ---------------- *)
HybridReturned == hpc = "returned" /\ retriever.kind = "hybrid"

\* the deduplication identity of a chunk: its first 100 characters (the first
\* block of the text) and its source path
Identity(d) ==
    <<IF d.page_content = <<>> THEN <<>> ELSE <<d.page_content[1]>>, d.source>>

Keys(s) == {Identity(s[i]) : i \in 1..Len(s)}

NoDupKeys(s) ==
    \A i, j \in 1..Len(s) : i # j => Identity(s[i]) # Identity(s[j])

\* position of the first occurrence of d in s
FirstIdx(s, d) == CHOOSE i \in 1..Len(s) : s[i] = d /\ \A j \in 1..(i - 1) : s[j] # d

\* C1: whatever lists the semantic and the keyword branch return, the list
\* returned by _HybridRetriever._get_relevant_documents has at most K entries.
C1_Budget == HybridReturned => Len(out) <= retrieverK

\* a search that filled the budget although the semantic branch returned more
\* than K/2 documents and both branches together more than K
C1_Witness ==
    /\ HybridReturned
    /\ Len(out) = retrieverK
    /\ Len(semRet) > retrieverK \div 2
    /\ Len(semRet) + Len(bmRet) > retrieverK

\* C2: the hybrid retriever's output never holds two chunks with the same
\* identity (first 100 characters of the text, source path), whether the two
\* come from one branch or from both.
C2_Dedup == HybridReturned => NoDupKeys(out)

\* a search whose semantic branch returned two chunks of one identity among
\* its first K/2 results and whose keyword branch returned that identity again
C2_Witness ==
    /\ HybridReturned
    /\ ~NoDupKeys(SemSlice(semRet, retrieverK))
    /\ Keys(SemSlice(semRet, retrieverK)) \cap Keys(bmRet) # {}
    /\ Len(out) >= 2

NonOverlapping == Keys(semRet) \cap Keys(bmRet) = {}

\* the first min(K/2, len(semantic)) entries of the output are the semantic
\* branch's, in order
SemanticPrefix ==
    LET n == Min(retrieverK \div 2, Len(semRet))
    IN  /\ Len(out) >= n
        /\ SubSeq(out, 1, n) = SubSeq(semRet, 1, n)

\* every entry that came from the semantic branch precedes every entry that
\* came from the keyword branch
SemanticFirst ==
    \A i, j \in 1..Len(out) :
        (out[i] \in Range(semRet) /\ out[j] \in Range(bmRet)) => i < j

\* C3 as stated: with non-overlapping branch results the output starts with
\* the first min(K/2, len(semantic)) semantic results and semantic entries
\* precede keyword entries.
C3_Original == (HybridReturned /\ NonOverlapping) => (SemanticPrefix /\ SemanticFirst)

\* C3: when the branches return non-overlapping results and the first K/2
\* semantic results have pairwise distinct identities, the first
\* min(K/2, len(semantic)) entries of the output equal the semantic branch's
\* output in order, and every semantic entry precedes every keyword entry,
\* whichever branch finished first.
C3_OrderPriority ==
    (HybridReturned /\ NonOverlapping /\ NoDupKeys(SemSlice(semRet, retrieverK)))
        => (SemanticPrefix /\ SemanticFirst)

\* the keyword branch finished first, and the output still starts with the
\* semantic results and goes on with keyword results
C3_Witness ==
    /\ HybridReturned
    /\ NonOverlapping
    /\ NoDupKeys(SemSlice(semRet, retrieverK))
    /\ doneOrder = <<"bm", "sem">>
    /\ Len(semRet) > retrieverK \div 2
    /\ retrieverK \div 2 >= 1
    /\ Len(out) > retrieverK \div 2

\* C4: after the (at most K/2) semantic results the keyword results are taken
\* in their returned order, duplicates skipped: an output shorter than K
\* holds the identity of every keyword result, and its keyword entries stand
\* in the order of the keyword branch.
C4_KeywordFill ==
    HybridReturned =>
        /\ Len(out) < retrieverK => Keys(bmRet) \subseteq Keys(out)
        /\ \A i, j \in 1..Len(out) :
             (/\ i < j
              /\ out[i] \notin Range(SemSlice(semRet, retrieverK))
              /\ out[j] \notin Range(SemSlice(semRet, retrieverK)))
             => /\ out[i] \in Range(bmRet)
                /\ out[j] \in Range(bmRet)
                /\ FirstIdx(bmRet, out[i]) < FirstIdx(bmRet, out[j])

\* an output shorter than K in which one keyword result was skipped as a
\* duplicate and two others were appended
C4_Witness ==
    /\ HybridReturned
    /\ Len(out) < retrieverK
    /\ Keys(bmRet) \cap Keys(SemSlice(semRet, retrieverK)) # {}
    /\ \E i, j \in 1..Len(out) :
         /\ i < j
         /\ out[i] \notin Range(semRet) /\ out[j] \notin Range(semRet)

KeywordUnavailable == chunksArg = NoChunks \/ chunksArg = <<>> \/ bm25Raises

\* C5: when the keyword index is unavailable (chunk list absent or empty, or
\* its construction raises) _create_retriever does not raise, and the
\* retriever it returns gives exactly the semantic search's result for k = K.
C5_Degradation ==
    /\ createState # "raised"
    /\ (createState = "returned" /\ KeywordUnavailable) =>
          /\ retriever.kind = "semantic"
          /\ retriever.semK = retrieverK
          /\ bmState = "idle"
          /\ hpc = "returned" => out = semRet
          /\ hpc = "raised" => semState = "raised"

\* the keyword index failed to build and the search returned the semantic
\* result, duplicates included
C5_Witness ==
    /\ createState = "returned"
    /\ chunksArg # NoChunks /\ chunksArg # <<>> /\ bm25Raises
    /\ hpc = "returned"
    /\ out = semRet
    /\ ~NoDupKeys(out)

\* C6: a hybrid search returns or raises only after both branches have
\* finished, and it raises whenever a branch raised.
C6_Join ==
    (retriever.kind = "hybrid" /\ hpc \in {"returned", "raised"}) =>
        /\ BranchFinished(semState) /\ BranchFinished(bmState)
        /\ (semState = "raised" \/ bmState = "raised") => hpc = "raised"
        /\ hpc = "raised" => (semState = "raised" \/ bmState = "raised")

\* the semantic branch raised first, the keyword branch finished afterwards,
\* and only then the search raised
C6_Witness ==
    /\ retriever.kind = "hybrid"
    /\ hpc = "raised"
    /\ semState = "raised"
    /\ bmState = "done"
    /\ doneOrder = <<"sem", "bm">>

(* --------------------- properties of the index store ------------------ *)
\* the running (or last) call has passed the choice between reuse and rebuild
Decided ==
    \/ bpc \in {"validate", "load", "split", "dump", "index", "finish"}
    \/ bpc = "idle" /\ buildNo > 0

\* the running (or last) call has ended
Ended == bpc = "finish" \/ (bpc = "idle" /\ buildNo > 0)

\* the persist directory was non-empty when the call looked at it
NonEmptyAtCall == dirAtCall.chunksFile # NoFile \/ dirAtCall.index.exists

IndexedDocs == {v.doc : v \in index.vectors}

\* C7: with force_reindex false and a non-empty persist directory the call
\* reuses the index: it returns without extracting, chunking or embedding
\* and leaves the directory's content as it was; in every other case it
\* goes through the rebuild, and a rebuild that returns has extracted,
\* chunked, embedded and written the new chunk list and vectors.
C7_ReuseOrRebuild ==
    Decided =>
        IF ~force_reindex /\ NonEmptyAtCall
        THEN /\ Ended
             /\ outcome.status = "returned"
             /\ outcome.reused
             /\ effects = {}
             /\ chunksFile = dirAtCall.chunksFile
             /\ index = dirAtCall.index
        ELSE /\ ~outcome.reused
             /\ (Ended /\ outcome.status = "returned") =>
                   /\ {"extract", "split", "embed"} \subseteq effects
                   /\ chunksFile = chunks
                   /\ Vectors(chunks, buildNo) \subseteq index.vectors

\* an index built by an earlier call is reused although the corpus holds a
\* PDF that is not in it
C7_Witness ==
    /\ Ended
    /\ outcome.reused
    /\ index.vectors # {}
    /\ \E f \in Range(Glob(corpus)) : \A d \in IndexedDocs : d.source # f

\* C8: a forced reindex empties the persist directory before it writes a
\* chunk list or a vector, and after a forced reindex that returned, the
\* index and the chunk list hold only chunks made by this rebuild from
\* files found in the corpus directory by this rebuild.
C8_CleanRebuild ==
    /\ (force_reindex /\ bpc \in {"validate", "load", "split", "dump"}) =>
          (chunksFile = NoFile /\ index = NoIndex)
    /\ (force_reindex /\ bpc = "index") => index.vectors = {}
    /\ (force_reindex /\ Ended /\ outcome.status = "returned") =>
          /\ \A v \in index.vectors :
                v.build = buildNo /\ v.doc.source \in Range(pdf_files)
          /\ chunksFile # NoFile
          /\ \A i \in 1..Len(chunksFile) : chunksFile[i].source \in Range(pdf_files)
          /\ IndexedDocs = Range(chunksFile)

\* a forced reindex returned after a file whose chunks were in the old index
\* had been removed from the corpus
C8_Witness ==
    /\ force_reindex
    /\ Ended
    /\ outcome.status = "returned"
    /\ index.vectors # {}
    /\ \E v \in dirAtCall.index.vectors : v.doc.source \notin corpus

\* C9: wherever a build stops, by returning or by raising, a chunk list in
\* the persist directory is accompanied by the vector index built from
\* exactly its chunks.
C9_AtomicPair ==
    (Ended /\ chunksFile # NoFile) =>
        (index.exists /\ IndexedDocs = Range(chunksFile))

\* C10: a call in which the embedding fails raises, and after such a failure
\* no call with force_reindex false returns an index without vectors while
\* the corpus holds PDFs and the chunk list on disk holds their chunks.
C10_NoSilentEmptyIndex ==
    /\ (Ended /\ outcome.error = "provider") => outcome.status = "raised"
    /\ (/\ Ended
        /\ embedFailed
        /\ ~force_reindex
        /\ outcome.status = "returned"
        /\ Glob(corpus) # <<>>
        /\ chunksFile # NoFile
        /\ chunksFile # <<>>)
       => index.vectors # {}

\* a PDF lies under the corpus directory, at any depth
HasPdf == \E f \in corpus : Len(f) > 1 /\ f[1] = "Base" /\ f[Len(f)] \in PdfNames

\* C11: whenever a rebuild is attempted (the call passes the reuse branch and
\* validates the corpus) and the corpus directory does not exist or holds no
\* PDF at any depth, the call fails with a configuration error whose message
\* names the resolved directory, and nothing is returned: no extraction, no
\* chunk list, no vector written
C11_ConfigError ==
    [][(bpc = "validate" /\ bpc' # "validate" /\ (~pdfDirExists \/ ~HasPdf))
        => /\ bpc' = "finish"
           /\ outcome'.status = "raised"
           /\ outcome'.error = "config"
           /\ outcome'.message.dir = <<"Base">>
           /\ outcome'.chunks = NoChunks
           /\ outcome'.retriever = "none"
           /\ index' = index /\ chunksFile' = chunksFile]_vars

\* a forced rebuild over a directory that holds only a text file has failed
\* with the error naming the directory
C11_Witness ==
    /\ bpc = "finish"
    /\ force_reindex
    /\ pdfDirExists /\ corpus = {PathN}
    /\ outcome.status = "raised" /\ outcome.error = "config"
    /\ outcome.message = [text |-> "Nenhum PDF encontrado", dir |-> <<"Base">>]

\* C12: on the reuse path (no forced reindex, persist directory not empty) a
\* missing or unreadable chunks.pkl never makes the call raise: the opened
\* index is returned with the chunk list absent, and the retriever made from
\* that pair is semantic-only
C12_ReuseWithoutChunks ==
    [][/\ (/\ bpc = "branch" /\ bpc' # "branch"
           /\ ~force_reindex
           /\ (chunksFile # NoFile \/ index.exists)
           /\ (chunksFile = NoFile \/ chunksFile = Unreadable))
          => /\ bpc' = "finish"
             /\ outcome'.status = "returned"
             /\ outcome'.reused
             /\ outcome'.chunks = NoChunks
             /\ index'.exists /\ index'.vectors = index.vectors
       /\ (/\ bpc = "finish" /\ bpc' = "idle"
           /\ outcome.reused
           /\ outcome.chunks = NoChunks)
          => /\ outcome'.status = "returned"
             /\ outcome'.retriever = "semantic"]_vars

\* a call has reused an index that holds vectors while chunks.pkl was
\* unreadable, and has made a semantic-only retriever
C12_Witness ==
    /\ bpc = "idle"
    /\ chunksFile = Unreadable
    /\ index.vectors # {}
    /\ outcome.status = "returned" /\ outcome.reused
    /\ outcome.chunks = NoChunks
    /\ outcome.retriever = "semantic"

\* a chunk has its source path and its filename, the filename being the last
\* component of the path
Labelled(d) ==
    /\ d.source # <<>>
    /\ d.filename # ""
    /\ d.filename = d.source[Len(d.source)]

\* C15: every chunk in the vector index or in the persisted chunk list has
\* its source path and its filename set, the filename being the base name of
\* the path; hence after a build over a single PDF every chunk an unfiltered
\* query can return (every vector of the index) carries that PDF's name
C15_FilenameSet ==
    /\ \A v \in index.vectors : Labelled(v.doc)
    /\ chunksFile # NoFile => \A i \in 1..Len(chunksFile) : Labelled(chunksFile[i])
    /\ (/\ bpc \in {"finish", "idle"}
        /\ outcome.status = "returned" /\ ~outcome.reused
        /\ Len(pdf_files) = 1)
       => /\ \A v \in index.vectors :
               v.doc.filename = pdf_files[1][Len(pdf_files[1])]
          /\ \A i \in 1..Len(outcome.chunks) :
               outcome.chunks[i].filename = pdf_files[1][Len(pdf_files[1])]

\* a build over the single PDF Base/sub/b.pdf has returned; the index holds
\* its chunk, labelled b.pdf
C15_Witness ==
    /\ bpc = "idle"
    /\ outcome.status = "returned" /\ ~outcome.reused
    /\ pdf_files = << <<"Base", "sub", "b.pdf">> >>
    /\ index.vectors # {}
    /\ \A v \in index.vectors : v.doc.filename = "b.pdf"
    /\ chunksFile # NoFile /\ Len(chunksFile) = 1

(* -------------------- properties of the extraction pool ---------------- *)
\* the for loop over ex.map has taken the result of every future
PoolComplete == bpc = "pool" /\ tasks # <<>> /\ Len(collected) = Len(tasks)

\* one of the two loaders returned the pages of file i
Succeeded(i) ==
    /\ tasks[i].st = "done"
    /\ tasks[i].log[Len(tasks[i].log)] \in {"PyMuPDF", "PyPDF"}

\* both loaders raised on file i
BothFailed(i) ==
    /\ tasks[i].st = "done"
    /\ tasks[i].log[Len(tasks[i].log)] = "PyPDF raised"

\* position of a path in the sorted order of all paths
Rank(f) == CHOOSE r \in 1..Len(SortedPaths) : SortedPaths[r] = f

\* the positions in docs of page j (counted from 1) of file f
Copies(ds, f, j) ==
    {k \in 1..Len(ds) : ds[k].source = f /\ ds[k].page = j - 1}

\* C13: for every schedule of the 4-worker pool, once all results are merged
\* the page list holds every page of every successfully extracted file
\* exactly once, with its text, and nothing else; the pages are grouped by
\* file in the sorted order of the file paths (and in page order within a
\* file), whichever worker finished first
C13_MergeComplete ==
    PoolComplete =>
        /\ \A i \in 1..Len(pdf_files) : \A j \in 1..2 :
              LET f == pdf_files[i]
                  n == IF f[3] \in {"p2.pdf", "p4.pdf", "p6.pdf"} THEN 2 ELSE 1
              IN  /\ Cardinality(Copies(documents, f, j)) =
                        (IF Succeeded(i) /\ j <= n THEN 1 ELSE 0)
                  /\ \A k \in Copies(documents, f, j) :
                        documents[k].page_content = <<IF j = 1 THEN "P" ELSE "Q">>
        /\ \A k \in 1..Len(documents) : documents[k].source \in Range(pdf_files)
        /\ \A i, j \in 1..Len(pdf_files) :
              i < j => Rank(pdf_files[i]) < Rank(pdf_files[j])
        /\ \A k, l \in 1..Len(documents) :
              k < l =>
                \/ Rank(documents[k].source) < Rank(documents[l].source)
                \/ /\ documents[k].source = documents[l].source
                   /\ documents[k].page < documents[l].page

\* more files than workers, a later file finished before an earlier one,
\* every file was extracted, and the merged list is complete
C13_Witness ==
    /\ PoolComplete
    /\ Len(tasks) > MAX_WORKERS
    /\ overtaken
    /\ \A i \in 1..Len(tasks) : Succeeded(i)
    /\ Len(documents) >= 7
    /\ documents[1].source = <<"Base", "lote", "p1.pdf">>

\* the loaders called for a future: PyPDFLoader only right after PyMuPDFLoader
\* raised, PyMuPDFLoader first
LoadersInOrder(t) ==
    /\ t.log # <<>> => t.log[1] = "PyMuPDF"
    /\ \A k \in 1..Len(t.log) :
         /\ t.log[k] = "PyPDF" => (k > 1 /\ t.log[k - 1] = "PyMuPDF raised")
         /\ t.log[k] = "PyMuPDF" => k = 1

\* C14: a per-file extraction failure never aborts ingestion: the secondary
\* loader is called only after the primary one raised; while the pool runs
\* the call neither raises nor returns; when the pool is left, a file on
\* which both loaders raised has no page in the list and every other file
\* has all its pages, also when every file failed; a configuration error is
\* raised only for a missing directory or one without a PDF
C14_ExtractionFailureSkips ==
    [][/\ \A i \in 1..Len(tasks') : LoadersInOrder(tasks'[i])
       /\ bpc = "pool" =>
             /\ bpc' \in {"pool", "split"}
             /\ outcome.status = "none" /\ outcome'.status = "none"
       /\ (bpc = "pool" /\ bpc' = "split") =>
             \A i \in 1..Len(pdf_files) :
                Cardinality({k \in 1..Len(documents') :
                                documents'[k].source = pdf_files[i]})
                  = (IF BothFailed(i) THEN 0 ELSE Len(PagesOf(pdf_files[i])))
       /\ (outcome'.status = "raised" /\ outcome'.error # "provider") =>
             /\ outcome'.error = "config"
             /\ ~pdfDirExists \/ ~HasPdf
             /\ "extract" \notin effects'
      ]_vars

\* the pool has finished a batch in which both loaders raised on one file,
\* another was read by the secondary loader and another by the primary one;
\* the failed file has no page in the list, the call goes on
C14_Witness ==
    /\ PoolComplete
    /\ outcome.status = "none"
    /\ \E i, j, k \in 1..Len(tasks) :
         /\ BothFailed(i)
         /\ i < j
         /\ tasks[j].log = <<"PyMuPDF", "PyMuPDF raised", "PyPDF">>
         /\ tasks[k].log = <<"PyMuPDF">>
         /\ \A d \in Range(documents) : d.source # pdf_files[i]
         /\ \E d \in Range(documents) : d.source = pdf_files[j]
         /\ \E d \in Range(documents) : d.source = pdf_files[k]

(* ---------------------- properties of answer_question ------------------ *)
\* the questions of the model that are about the PDFs of the base, and those
\* that are not
MetaQuestions ==
    {<<"q", "u", "a", "i", "s", " ", "p", "d", "f", "s", " ", "e", "s", "t",
       "a", "o", " ", "n", "a", " ", "b", "a", "s", "e">>,
     <<" ", "Q", "U", "A", "I", "S", " ", "P", "D", "F", "S", " ", "E", "S",
       "T", "A", "O", " ", "N", "A", " ", "B", "A", "S", "E", " ">>,
     <<"o", " ", "q", "u", "e", " ", "t", "e", "m", " ", "n", "a", " ", "b",
       "a", "s", "e">>}

OtherQuestions ==
    {Chars("Qual o valor do contrato?"), Chars("qual a data base de reajuste"),
     Chars("resuma o documento")}

\* the caller gave a source filter
FilterGiven == filter_source.given /\ filter_source.name # ""

\* the operations called so far by this call of answer_question
Ops == {calls[i].op : i \in 1..Len(calls)}

\* retrieval has begun for a question that is not about the base
Retrieved ==
    /\ question \in OtherQuestions
    /\ apc \in {"fallback", "retrieved", "returned", "raised"}

\* C16: for a question that is not a meta-question, answer_question goes to
\* the filtered similarity search and never calls the retriever when a source
\* filter is given, and goes through the retriever (and never searches the
\* vector store itself) exactly when no filter is given
C16_Routing ==
    Retrieved =>
        /\ calls # <<>>
        /\ FilterGiven =>
              /\ calls[1].op = "similarity_search"
              /\ calls[1].filter = filter_source.name
              /\ "retriever.invoke" \notin Ops
        /\ ~FilterGiven =>
              /\ calls[1].op = "retriever.invoke"
              /\ "similarity_search" \notin Ops

\* a filtered question has been answered from chunks of the filtered search
C16_Witness ==
    /\ apc = "returned"
    /\ question = Chars("Qual o valor do contrato?")
    /\ filter_source = FilterOn("a.pdf")
    /\ reply.sources # <<>>
    /\ Ops = {"similarity_search", "llm"}

\* no file of the corpus directory has the name n
Nonexistent(n) == \A f \in corpus : f[Len(f)] # n

\* C17: with a source filter, the search over 2K candidates without filter
\* is issued only after the search with the filename filter gave nothing;
\* the chunks kept are at most K; a filter naming a file that does not exist
\* gives the empty result with the message that nothing was found, and the
\* call raises only when a search call itself fails
C17_FilteredRoute ==
    (Retrieved /\ FilterGiven) =>
        /\ \A i \in 1..Len(calls) :
              (calls[i].op = "similarity_search" /\ calls[i].filter = "") =>
                 /\ i = 2
                 /\ calls[i].k = 2 * retrieverK
                 /\ calls[1].found = 0
        /\ Len(docs) <= retrieverK
        /\ (apc = "returned" /\ Nonexistent(filter_source.name)) =>
              /\ reply.sources = <<>>
              /\ reply.answer.kind = "Nenhum trecho relevante encontrado"
        /\ apc = "raised" => calls[Len(calls)].raised

\* C18: with a source filter naming document F, every chunk in the sources
\* returned by answer_question comes from the document named F: the base
\* name of its source path is F
C18_FilterIsolation ==
    (apc = "returned" /\ FilterGiven) =>
        \A i \in 1..Len(reply.sources) :
           LET src == reply.sources[i].source
           IN  src # <<>> /\ src[Len(src)] = filter_source.name

\* the names of the PDFs under the corpus directory
CorpusPdfNames == {f[Len(f)] : f \in {g \in corpus : g[Len(g)] \in PdfNames}}

\* C19: a question classified as a meta-question about the corpus makes
\* answer_question return the numbered listing of the PDF file names (or the
\* message that the directory is missing or holds no PDF) with an empty
\* source list, without any call to the retriever, the vector store or the
\* model, whatever the history and the source filter
C19_MetaQuestion ==
    (question \in MetaQuestions /\ apc # "start") =>
        /\ apc = "returned"
        /\ calls = <<>>
        /\ reply.status = "returned"
        /\ reply.sources = <<>>
        /\ Len(reply.answer.names) = Cardinality(CorpusPdfNames)
        /\ \A i \in 1..Len(reply.answer.names) :
              /\ reply.answer.names[i][1] = i
              /\ reply.answer.names[i][2] \in CorpusPdfNames
        /\ \A i, j \in 1..Len(reply.answer.names) :
              i # j => reply.answer.names[i][2] # reply.answer.names[j][2]
        /\ reply.answer.kind =
              (IF ~pdfDirExists THEN "A pasta Base nao foi encontrada"
               ELSE IF CorpusPdfNames = {}
                    THEN "Nenhum arquivo PDF encontrado na pasta Base"
                    ELSE "Os seguintes arquivo(s) PDF estao na base")

\* the question in capitals, asked with a filter and a long history, got the
\* listing of the three PDFs of the base
C19_Witness ==
    /\ apc = "returned"
    /\ question \in MetaQuestions /\ question[2] = "Q"
    /\ filter_source = FilterOn("a.pdf")
    /\ Len(history) > HISTORY_TURNS
    /\ Len(reply.answer.names) = 3
    /\ reply.answer.names[2] = <<2, "ba.pdf">>
    /\ index.vectors # {}

\* C20: whenever retrieval gave zero chunks, on the retriever route or the
\* filtered route, answer_question returns the fixed message that nothing
\* was found with an empty source list; it does not raise and does not call
\* the model
C20_NothingFound ==
    [][(apc = "retrieved" /\ docs = <<>>) =>
          /\ apc' = "returned"
          /\ reply'.status = "returned"
          /\ reply'.answer.kind = "Nenhum trecho relevante encontrado"
          /\ reply'.sources = <<>>
          /\ calls' = calls]_vars

\* a question filtered on a name that matches nothing was answered with the
\* fixed message after both searches, on an index that holds chunks
C20_Witness ==
    /\ apc = "returned"
    /\ filter_source = FilterOn("zz.pdf")
    /\ index.vectors # {}
    /\ Len(calls) = 2
    /\ "llm" \notin Ops
    /\ reply.answer.kind = "Nenhum trecho relevante encontrado"
    /\ reply.sources = <<>>

\* the call of the model made by this call of answer_question, if any
LlmCalls == {i \in 1..Len(calls) : calls[i].op = "llm"}

\* C21: when retrieval returned n >= 1 chunks, the context given to the model
\* has exactly n labelled blocks numbered 1..n, block i made of the i-th
\* chunk retrieved, and the sources returned are exactly the retrieved chunks
\* in the same order
C21_ContextBlocks ==
    (apc \in {"returned", "raised"} /\ LlmCalls # {}) =>
        /\ docs # <<>>
        /\ \A c \in LlmCalls :
              /\ Len(calls[c].context) = Len(docs)
              /\ calls[c].context # <<>>
              /\ \A i \in 1..Len(docs) :
                    /\ calls[c].context[i].n = i
                    /\ calls[c].context[i].text = docs[i].page_content
                    /\ calls[c].context[i].label.text =
                          (IF docs[i].source = <<>> THEN "Documento"
                           ELSE docs[i].source[Len(docs[i].source)])
        /\ apc = "returned" => reply.sources = docs

\* three chunks with different texts were retrieved, given to the model and
\* returned as the sources
C21_Witness ==
    /\ apc = "returned"
    /\ Len(docs) >= 3
    /\ docs[1].page_content # docs[2].page_content
    /\ docs[2].page_content # docs[3].page_content
    /\ LlmCalls # {}
    /\ reply.sources = docs

\* C26: the label of a chunk with a source is the file name with the page
\* when the chunk has a page, page 0 included, and the bare file name when it
\* has none; chunks with the same source and page get the same label
C26_SourceLabel ==
    \A c \in LlmCalls :
       /\ \A i \in 1..Len(docs) :
             docs[i].source # <<>> =>
                /\ calls[c].context[i].label.text = docs[i].source[Len(docs[i].source)]
                /\ docs[i].page >= 0 => calls[c].context[i].label.pagina = <<docs[i].page>>
                /\ docs[i].page < 0 => calls[c].context[i].label.pagina = <<>>
       /\ \A i, j \in 1..Len(docs) :
             (docs[i].source = docs[j].source /\ docs[i].page = docs[j].page) =>
                 calls[c].context[i].label = calls[c].context[j].label

\* the context held two chunks of page 0 of a.pdf, labelled alike, and a
\* chunk of a.pdf without page, labelled with the bare name
C26_Witness ==
    /\ apc = "returned"
    /\ \E c \in LlmCalls : \E i, j, k \in 1..Len(docs) :
          /\ i # j
          /\ docs[i].page = 0 /\ docs[j].page = 0
          /\ docs[i].source = docs[j].source
          /\ calls[c].context[i].label = [text |-> "a.pdf", pagina |-> <<0>>]
          /\ calls[c].context[j].label = [text |-> "a.pdf", pagina |-> <<0>>]
          /\ docs[k].page < 0
          /\ calls[c].context[k].label = [text |-> "a.pdf", pagina |-> <<>>]

\* C23: a provider call that raises inside answer_question ends the
\* invocation with that error: no other provider call follows it, and the
\* invocation does not return a result
C23_FailureSurfaced ==
    \A i \in 1..Len(calls) :
       calls[i].raised =>
          /\ i = Len(calls)
          /\ apc # "returned"

\* the running (or last) call was a forced reindex that failed on the corpus
FailedForced ==
    /\ Ended
    /\ force_reindex
    /\ outcome.status = "raised"
    /\ outcome.error = "config"

\* C29: a forced reindex that fails with a configuration error has already
\* deleted the persisted index: the persist directory is left existing and
\* empty, and the next call, when it is not forced, does not reuse anything
\* but goes to the rebuild
C29_WipeBeforeValidate ==
    /\ [](FailedForced =>
             (persistExists /\ chunksFile = NoFile /\ index = NoIndex))
    /\ \A n \in 1..MaxBuilds :
          []((FailedForced /\ buildNo = n) =>
                []((buildNo = n + 1 /\ ~force_reindex /\ Decided) =>
                      (~outcome.reused /\ ~NonEmptyAtCall)))

\* an index had been built, the PDFs were removed, a forced reindex failed
\* on the empty corpus, and the next call, not forced, failed on the corpus
\* too instead of reusing the index built first
C29_Witness ==
    /\ buildNo = 3
    /\ Ended
    /\ ~force_reindex
    /\ ~outcome.reused
    /\ outcome.error = "config"
    /\ ~NonEmptyAtCall
    /\ persistExists /\ chunksFile = NoFile /\ index = NoIndex
    /\ dotenvReindex = FALSE
    /\ corpus = {}


(* -------------------- properties of the REINDEX variable --------------- *)
\* C24: a call of init_rag that did not ask for a reindex (it is not made by
\* rebuild_rag and .env does not set REINDEX) never runs with force_reindex
\* true and never removes the persist directory, whatever other threads of
\* the process do to the environment meanwhile
C24_NoLeak ==
    (buildNo > 0 /\ ~viaRebuild /\ ~dotenvReindex) =>
        (~force_reindex /\ "wipe" \notin effects)

(* ------------------ properties of the callers' history ----------------- *)
\* C22: the model receives the last HISTORY_TURNS turns of the history it was
\* called with, or all of them when there are fewer, in their order, however
\* long that history is; and the history kept by the command line loop never
\* holds more than 5 turns
C22_LastTurns ==
    /\ \A c \in LlmCalls :
          LET h == calls[c].hist
          IN  /\ Len(h) <= 5
              /\ Len(h) = IF Len(history) < 5 THEN Len(history) ELSE 5
              /\ \A i \in 1..Len(h) : h[i] = history[Len(history) - Len(h) + i]
    /\ Len(cliHistory) <= 5

\* a call with a history of more than five turns reached the model, which got
\* the last five
C22_Witness ==
    /\ apc = "returned"
    /\ Len(history) > 5
    /\ \E c \in LlmCalls : calls[c].hist = <<Len(history) - 4, Len(history) - 3,
                                            Len(history) - 2, Len(history) - 1,
                                            Len(history)>>

\* the lines that are inline commands
CommandLines ==
    {Chars("/filter a.pdf"), Chars("/filter zz.pdf"), Chars("/filter off"),
     Chars("/filter  OFF"), Chars("/historico"), Chars("/limpar")}

\* C30: a line that is an inline command changes only what it names:
\* "/filter X" sets the filter to X when X is a name of the listing taken at
\* startup and leaves it unchanged otherwise, "/filter off" (in any case)
\* clears it, "/limpar" empties the history, "/historico" changes nothing;
\* none of them calls answer_question or adds a turn
C30_CommandFrame ==
    [][(cpc = "prompt" /\ corpus' = corpus /\ cliLine' \in CommandLines) =>
          /\ cpc' = "prompt"
          /\ UNCHANGED <<avars, turns, pdf_names, hvars, bvars, pvars>>
          /\ cliHistory' = (IF cliLine' = Chars("/limpar") THEN <<>>
                            ELSE cliHistory)
          /\ cliFilter' =
               (IF cliLine' \in {Chars("/filter off"), Chars("/filter  OFF")}
                THEN [given |-> FALSE, name |-> ""]
                ELSE IF cliLine' = Chars("/filter a.pdf") /\ "a.pdf" \in pdf_names
                THEN [given |-> TRUE, name |-> "a.pdf"]
                ELSE IF cliLine' = Chars("/filter zz.pdf") /\ "zz.pdf" \in pdf_names
                THEN [given |-> TRUE, name |-> "zz.pdf"]
                ELSE cliFilter)]_vars

\* after some turns, "/filter a.pdf" has set the filter to a.pdf, which was
\* in the listing at startup and has left the corpus directory since
C30_Witness ==
    /\ cpc = "prompt"
    /\ cliLine = Chars("/filter a.pdf")
    /\ cliFilter = [given |-> TRUE, name |-> "a.pdf"]
    /\ PathA \notin corpus
    /\ Len(cliHistory) >= 2

(* ----------------------- properties of the web page -------------------- *)
\* C27: the script run that follows an upload (reindex_needed is set) does not
\* take the handle from the cache: init_rag is executed with the reindex
\* forced, the handle of the run is the one it returned for the current
\* rag_version, and reindex_needed is unset afterwards unless that run
\* uploads again
C27_ReindexAfterUpload ==
    [][reindex_needed =>
          /\ loaded' # "hit"
          /\ rag'.loaded => (rag'.forced /\ rag'.version = rag_version)
          /\ reindex_needed' => rag_version' = rag_version + 1]_vars

\* C28: at the end of every script run st.session_state.messages and its
\* mirror in the store hold at most 10 messages
C28_MessagesBounded ==
    /\ Len(messages) <= 10
    /\ Len(storeMessages) <= 10


Init == HInit /\ BQuiet /\ PQuiet /\ AQuiet /\ CQuiet /\ WQuiet

Spec == Init /\ [][HNext]_vars

InitBuild == HQuiet /\ BInit /\ PQuiet /\ AQuiet /\ CQuiet /\ WQuiet

SpecBuild == InitBuild /\ [][BNext]_vars

SpecDamage == InitBuild /\ [][DNext]_vars

SpecConcurrent == InitBuild /\ [][CNext]_vars

InitPool == HQuiet /\ PInit /\ PQuiet /\ AQuiet /\ CQuiet /\ WQuiet

SpecPool == InitPool /\ [][PNext]_vars

InitAnswer == HInit /\ AInit /\ PQuiet /\ AQuiet /\ CQuiet /\ WQuiet

SpecAnswer == InitAnswer /\ [][ANext]_vars

InitWeb == HQuiet /\ BQuiet /\ PQuiet /\ AQuiet /\ CQuiet /\ WQuiet

SpecWeb == InitWeb /\ [][WNext]_vars

\* init_rag has returned; main.py is started on it, or is not
InitCallers ==
    /\ HQuiet /\ AInit /\ PQuiet /\ AQuiet /\ WQuiet
    /\ CQuiet \/ CliStart

SpecCallers == InitCallers /\ [][CallersNext]_vars

====
